---------------------------- MODULE Spec2Model ----------------------------
(***************************************************************************)
(* The hot-parts ingestion system of tmduggan/hotparts as a state machine. *)
(*                                                                         *)
(* Text is a sequence of one-character strings, so that strip, lower,      *)
(* substring tests, the date regular expression and string concatenation   *)
(* are computed as the Python code computes them.  A DataFrame is the      *)
(* sequence of its rows (records); an Excel file on disk is the DataFrame  *)
(* it holds, and <<>> when the file does not exist (the code never writes  *)
(* a master file with zero rows).                                          *)
(***************************************************************************)
EXTENDS Integers, Sequences, FiniteSets, TLC

(***************************************************************************)
(* Text primitives                                                         *)
(***************************************************************************)

\* A missing cell (pandas NaN) and Python's None.
NaN == <<"NaN">>
None == <<"None">>
\* None where a DataFrame is expected.
NoFrame == <<[None |-> TRUE]>>

isna(v) == v = NaN

\* str(value): a missing cell prints as 'nan'.
Str(v) == IF v = NaN THEN <<"n", "a", "n">> ELSE v

RECURSIVE lstrip(_)
lstrip(s) == IF s # <<>> /\ Head(s) = " " THEN lstrip(Tail(s)) ELSE s

RECURSIVE rstrip(_)
rstrip(s) ==
    IF s # <<>> /\ s[Len(s)] = " " THEN rstrip(SubSeq(s, 1, Len(s) - 1)) ELSE s

\* str.strip()
strip(s) == rstrip(lstrip(s))

\* The characters of the model in ASCII order; string comparison (sort_values)
\* compares characters by their position here.
Ascii ==
    <<" ", "$", "(", ")", ",", "-", ".",
      "0", "1", "2", "3", "4", "5", "6", "7", "8", "9",
      "A", "B", "C", "D", "E", "F", "G", "H", "I", "J", "K", "L", "M",
      "N", "O", "P", "Q", "R", "S", "T", "U", "V", "W", "X", "Y", "Z", "_",
      "a", "b", "c", "d", "e", "f", "g", "h", "i", "j", "k", "l", "m",
      "n", "o", "p", "q", "r", "s", "t", "u", "v", "w", "x", "y", "z", "|">>

Chars == {Ascii[i] : i \in 1..Len(Ascii)}

Rank == [c \in Chars |-> CHOOSE i \in 1..Len(Ascii) : Ascii[i] = c]

UpperFirst == Rank["A"]
LowerFirst == Rank["a"]

\* str.lower(), one character
LowerChar(c) ==
    IF Rank[c] >= UpperFirst /\ Rank[c] < UpperFirst + 26
    THEN Ascii[Rank[c] - UpperFirst + LowerFirst]
    ELSE c

lower(s) == [i \in 1..Len(s) |-> LowerChar(s[i])]

\* sub in s
Contains(s, sub) ==
    \E i \in 0..(Len(s) - Len(sub)) : SubSeq(s, i + 1, i + Len(sub)) = sub

\* s.endswith(suffix)
EndsWith(s, suffix) ==
    /\ Len(s) >= Len(suffix)
    /\ SubSeq(s, Len(s) - Len(suffix) + 1, Len(s)) = suffix

IsDigit(c) == c \in {"0", "1", "2", "3", "4", "5", "6", "7", "8", "9"}

\* s1 < s2 in Python's string order
RECURSIVE StrLess(_, _)
StrLess(s, t) ==
    IF t = <<>> THEN FALSE
    ELSE IF s = <<>> THEN TRUE
    ELSE IF Head(s) = Head(t) THEN StrLess(Tail(s), Tail(t))
    ELSE Rank[Head(s)] < Rank[Head(t)]

Range(s) == {s[i] : i \in 1..Len(s)}

\* pd.concat(list_of_frames, ignore_index=True)
RECURSIVE concat(_)
concat(frames) ==
    IF frames = <<>> THEN <<>> ELSE Head(frames) \o concat(Tail(frames))

(***************************************************************************)
(* DataFrame operations (pandas)                                           *)
(***************************************************************************)

\* DataFrame.drop_duplicates(): the first occurrence of every row is kept.
RECURSIVE drop_duplicates(_)
drop_duplicates(df) ==
    IF df = <<>> THEN <<>>
    ELSE LET init == drop_duplicates(SubSeq(df, 1, Len(df) - 1))
             last == df[Len(df)]
         IN  IF last \in Range(init) THEN init ELSE Append(init, last)

\* DataFrame.sort_values(columns): a stable sort, Less the order of the columns.
sort_values(df, Less(_, _)) ==
    LET Insert(sorted, r) ==
            LET pos == Cardinality({i \in 1..Len(sorted) : ~Less(r, sorted[i])})
            IN  SubSeq(sorted, 1, pos) \o <<r>> \o SubSeq(sorted, pos + 1, Len(sorted))
        f[n \in 0..Len(df)] == IF n = 0 THEN <<>> ELSE Insert(f[n - 1], df[n])
    IN  f[Len(df)]

\* The order of sort_values(['MPN', 'Date']).
MpnDateLess(a, b) ==
    \/ StrLess(a.MPN, b.MPN)
    \/ a.MPN = b.MPN /\ StrLess(a.Date, b.Date)

\* An empty text cell is written as an empty cell and read back as NaN.
ReadCell(v) == IF v = <<>> THEN NaN ELSE v

\* pd.read_excel of a file written by to_excel.
read_excel(file) ==
    [i \in 1..Len(file) |-> [k \in DOMAIN file[i] |-> ReadCell(file[i][k])]]

(***************************************************************************)
(* HotPartsParser (hot_parts_parser.py)                                    *)
(*                                                                         *)
(* A sheet of a workbook is [name, grid]: grid is the sequence of the      *)
(* sheet's rows, each a sequence of cells (text or NaN).  pd.read_excel    *)
(* takes the first row of the grid as the column labels, the rest as the   *)
(* rows of the DataFrame.                                                  *)
(***************************************************************************)

sMPN == <<"M", "P", "N">>
sReqs == <<"R", "e", "q", "s">>
sCount == <<"C", "o", "u", "n", "t">>
sReqsCount == sReqs \o <<" ">> \o sCount
sMFG == <<"M", "F", "G">>
sManufacturer == <<"M", "a", "n", "u", "f", "a", "c", "t", "u", "r", "e", "r">>
sProduct == <<"P", "r", "o", "d", "u", "c", "t">>
sClass == <<"C", "l", "a", "s", "s">>
sDescription == <<"D", "e", "s", "c", "r", "i", "p", "t", "i", "o", "n">>
sPivot == <<"P", "i", "v", "o", "t">>

\* The regular expression \d{4}\.\d{2}\.\d{2} matches s at position i.
MatchDateAt(s, i) ==
    /\ i >= 1
    /\ i + 9 <= Len(s)
    /\ \A k \in {0, 1, 2, 3, 5, 6, 8, 9} : IsDigit(s[i + k])
    /\ s[i + 4] = "."
    /\ s[i + 7] = "."

extract_date_from_filename(filename) ==
    IF \E i \in 1..Len(filename) : MatchDateAt(filename, i)
    THEN LET i == CHOOSE j \in 1..Len(filename) :
                      /\ MatchDateAt(filename, j)
                      /\ \A k \in 1..(j - 1) : ~MatchDateAt(filename, k)
         IN  SubSeq(filename, i, i + 9)
    ELSE None

extract_date_from_sheetname(sheet_name) ==
    IF MatchDateAt(sheet_name, 1) THEN sheet_name ELSE None

\* DataFrame rows of a sheet: everything below the first row of the grid.
SheetRows(grid) == IF grid = <<>> THEN <<>> ELSE Tail(grid)

\* keyword in str(row.values)
RowHas(row, keyword) == \E i \in 1..Len(row) : Contains(Str(row[i]), keyword)

\* The first DataFrame row for which IsHeader holds (0: none).
HeaderRow(rows, IsHeader(_)) ==
    IF \E i \in 1..Len(rows) : IsHeader(rows[i])
    THEN CHOOSE i \in 1..Len(rows) :
             /\ IsHeader(rows[i])
             /\ \A k \in 1..(i - 1) : ~IsHeader(rows[k])
    ELSE 0

\* The field a header cell of a date sheet is assigned to (the elif chain).
DateSheetField(header) ==
    LET header_str == strip(Str(header))
    IN  IF Contains(header_str, sMPN) THEN "MPN"
        ELSE IF Contains(header_str, sReqs) /\ Contains(header_str, sCount)
             THEN "Reqs_Count"
        ELSE IF Contains(header_str, sMFG) \/ Contains(header_str, sManufacturer)
             THEN "Manufacturer"
        ELSE IF Contains(header_str, sProduct) /\ Contains(header_str, sClass)
             THEN "Product_Class"
        ELSE IF Contains(header_str, sDescription) THEN "Description"
        ELSE "none"

\* The column of a field: the last header cell assigned to it (0: None).
ColumnOf(headers, field, FieldOf(_)) ==
    LET hits == {i \in 1..Len(headers) : FieldOf(headers[i]) = field}
    IN  IF hits = {} THEN 0 ELSE CHOOSE i \in hits : \A j \in hits : j <= i

\* str(row.iloc[col]).strip() if col is not None else ''
FieldText(row, col) == IF col = 0 THEN <<>> ELSE strip(Str(row[col]))

\* A blank test that sees only missing cells.
MpnMissing(row, mpn_col) == isna(row[mpn_col])

MpnBlank(row, mpn_col) == isna(row[mpn_col]) \/ strip(Str(row[mpn_col])) = <<>>

clean_dataframe(grid, sheet_date) ==
    LET rows == SheetRows(grid)
        IsHeader(row) == RowHas(row, sMPN)
        header_row == HeaderRow(rows, IsHeader)
    IN  IF header_row = 0 THEN <<>>
        ELSE
        LET headers == rows[header_row]
            data == SubSeq(rows, header_row + 1, Len(rows))
            mpn_col == ColumnOf(headers, "MPN", DateSheetField)
            reqs_count_col == ColumnOf(headers, "Reqs_Count", DateSheetField)
            mfg_col == ColumnOf(headers, "Manufacturer", DateSheetField)
            product_class_col == ColumnOf(headers, "Product_Class", DateSheetField)
            description_col == ColumnOf(headers, "Description", DateSheetField)
            kept == SelectSeq(data, LAMBDA row : ~MpnBlank(row, mpn_col))
        IN  [i \in 1..Len(kept) |->
                [MPN |-> strip(Str(kept[i][mpn_col])),
                 Date |-> sheet_date,
                 Reqs_Count |-> FieldText(kept[i], reqs_count_col),
                 Manufacturer |-> FieldText(kept[i], mfg_col),
                 Product_Class |-> FieldText(kept[i], product_class_col),
                 Description |-> FieldText(kept[i], description_col)]]

\* The field a header cell of the Pivot sheet is assigned to.
PivotSheetField(header) ==
    LET header_str == strip(Str(header))
    IN  IF Contains(header_str, sMPN) THEN "MPN"
        ELSE IF Contains(header_str, sReqsCount) THEN "Reqs_Count"
        ELSE "none"

clean_pivot_data(grid, file_date) ==
    LET rows == SheetRows(grid)
        IsHeader(row) == RowHas(row, sMPN) /\ RowHas(row, sReqsCount)
        header_row == HeaderRow(rows, IsHeader)
    IN  IF header_row = 0 THEN <<>>
        ELSE
        LET headers == rows[header_row]
            data == SubSeq(rows, header_row + 1, Len(rows))
            mpn_col == ColumnOf(headers, "MPN", PivotSheetField)
            reqs_count_col == ColumnOf(headers, "Reqs_Count", PivotSheetField)
        IN  IF mpn_col = 0 \/ reqs_count_col = 0 THEN <<>>
            ELSE
            LET kept == SelectSeq(data, LAMBDA row : ~MpnBlank(row, mpn_col))
            IN  [i \in 1..Len(kept) |->
                    [MPN |-> strip(Str(kept[i][mpn_col])),
                     Reqs_Count |-> strip(Str(kept[i][reqs_count_col])),
                     Date |-> file_date]]

\* The same with a loop that ends at the first date sheet without a header row.
RECURSIVE DateSheetChunksUntilHeadless(_)
DateSheetChunksUntilHeadless(sheets) ==
    IF sheets = <<>> THEN <<>>
    ELSE LET sheet == Head(sheets)
             sheet_date == extract_date_from_sheetname(sheet.name)
             cleaned_df == IF sheet_date = None THEN <<>>
                           ELSE clean_dataframe(sheet.grid, sheet_date)
         IN  IF sheet_date # None /\ ~\E i \in 1..Len(SheetRows(sheet.grid)) :
                                        RowHas(SheetRows(sheet.grid)[i], sMPN)
             THEN <<>>
             ELSE (IF cleaned_df = <<>> THEN <<>> ELSE <<cleaned_df>>)
                      \o DateSheetChunksUntilHeadless(Tail(sheets))

\* The non-empty cleaned frames of the date sheets of a workbook, in sheet order.
RECURSIVE DateSheetChunks(_)
DateSheetChunks(sheets) ==
    IF sheets = <<>> THEN <<>>
    ELSE LET sheet == Head(sheets)
             sheet_date == extract_date_from_sheetname(sheet.name)
             cleaned_df == IF sheet_date = None THEN <<>>
                           ELSE clean_dataframe(sheet.grid, sheet_date)
         IN  (IF cleaned_df = <<>> THEN <<>> ELSE <<cleaned_df>>)
                 \o DateSheetChunks(Tail(sheets))

\* The non-empty cleaned frame of the sheet named 'Pivot', if the workbook has one.
PivotChunks(sheets, file_date) ==
    LET pivots == SelectSeq(sheets, LAMBDA sheet : sheet.name = sPivot)
    IN  IF pivots = <<>> THEN <<>>
        ELSE LET cleaned_pivot == clean_pivot_data(pivots[1].grid, file_date)
             IN  IF cleaned_pivot = <<>> THEN <<>> ELSE <<cleaned_pivot>>

\* HotPartsParser.process_file on parser state p = [master_data, pivot_data].
\* file is the workbook [name, readable, sheets]; present says whether file_path
\* still exists.  Opening a missing or unreadable workbook raises inside the try
\* block, which prints the error and returns.
\* A parser that goes on without a date in the file name.
ParserProcessUndated(p, file, present) ==
    IF ~present \/ ~file.readable THEN p
    ELSE [master_data |-> p.master_data \o DateSheetChunks(file.sheets),
          pivot_data |-> p.pivot_data
                             \o PivotChunks(file.sheets,
                                            extract_date_from_filename(file.name))]

ParserProcessFile(p, file, present) ==
    LET file_date == extract_date_from_filename(file.name)
    IN  IF file_date = None THEN p
        ELSE IF ~present \/ ~file.readable THEN p
        ELSE [master_data |-> p.master_data \o DateSheetChunks(file.sheets),
              pivot_data |-> p.pivot_data \o PivotChunks(file.sheets, file_date)]

\* One master file as compile_master_files leaves it: rewritten from the parser's
\* chunks when there are any, otherwise left as it is.
CompileOne(chunks, old_file) ==
    IF chunks = <<>> THEN old_file
    ELSE sort_values(drop_duplicates(concat(chunks)), MpnDateLess)

\* HotPartsParser.compile_master_files: the new [master, pivot] files.
compile_master_files(p, files) ==
    [master |-> CompileOne(p.master_data, files.master),
     pivot |-> CompileOne(p.pivot_data, files.pivot)]


(***************************************************************************)
(* Duplicate detection of the watching handlers                            *)
(* (unified_auto_processor.py, enhanced_auto_processor.py)                 *)
(***************************************************************************)

\* new_data['MPN'] + '|' + new_data['Date']
composite_key(r) == r.MPN \o <<"|">> \o r.Date

Keys(df) == {composite_key(df[i]) : i \in 1..Len(df)}

\* A duplicate test on the MPN alone.
detect_duplicates_by_mpn(new_data, existing_data) ==
    SelectSeq(new_data,
              LAMBDA r : \A i \in 1..Len(existing_data) : existing_data[i].MPN # r.MPN)

\* detect_duplicates: the rows of new_data whose key is not a key of existing_data;
\* new_data itself when either frame is empty.  The same code serves "master" and
\* "pivot".
detect_duplicates(new_data, existing_data) ==
    IF existing_data = <<>> \/ new_data = <<>> THEN new_data
    ELSE LET existing_keys == Keys(existing_data)
         IN  SelectSeq(new_data, LAMBDA r : composite_key(r) \notin existing_keys)

\* The frame detect_duplicates logs as removed: new_data[new_data['is_duplicate']];
\* nothing is removed on the early return.
duplicates(new_data, existing_data) ==
    IF existing_data = <<>> \/ new_data = <<>> THEN <<>>
    ELSE LET existing_keys == Keys(existing_data)
         IN  SelectSeq(new_data, LAMBDA r : composite_key(r) \in existing_keys)

\* A chunk loop that leaves the cache as it was loaded.
DedupeLoopStaleCache(chunks, cache, new_data) ==
    [data |-> new_data
                 \o SelectSeq([i \in 1..Len(chunks) |->
                                  detect_duplicates(chunks[i], cache)],
                              LAMBDA c : c # <<>>),
     cache |-> cache]

\* The chunk loop of process_hot_parts_file / process_file: every chunk of the
\* parser is filtered against the cache, and the cache grows by what was kept.
\* [data: the new chunk list, cache: the cache afterwards]
RECURSIVE DedupeLoop(_, _, _)
DedupeLoop(chunks, cache, new_data) ==
    IF chunks = <<>> THEN [data |-> new_data, cache |-> cache]
    ELSE LET unique_chunk == detect_duplicates(Head(chunks), cache)
         IN  IF unique_chunk # <<>>
             THEN DedupeLoop(Tail(chunks), cache \o unique_chunk,
                             Append(new_data, unique_chunk))
             ELSE DedupeLoop(Tail(chunks), cache, new_data)

\* 'Weekly Hot Parts' in filename
is_hot_parts_file(filename) ==
    Contains(filename, <<"W", "e", "e", "k", "l", "y", " ", "H", "o", "t", " ",
                         "P", "a", "r", "t", "s">>)

is_excess_file(filename) == ~is_hot_parts_file(filename)

\* ExcessFileHandler.is_excess_file
ExcessHandlerIsExcessFile(filename) ==
    /\ EndsWith(filename, <<".", "x", "l", "s", "x">>)
    /\ \/ Contains(filename, <<"K", "e", "l", "l", "y", " ", "C", "h", "e", "n">>)
       \/ Contains(filename, <<"V", "i", "c", "k", "y", " ", "Z", "h", "a", "n", "g">>)
       \/ Contains(filename, <<"M", "i", "c", "r", "o", "n", " ", "s", "t", "o", "c", "k">>)
       \/ Contains(filename, <<"B", "C", "M", " ", "E", "x", "c", "e", "s", "s">>)

\* filename.endswith(('.xlsx', '.xls'))
IsExcelName(filename) ==
    \/ EndsWith(filename, <<".", "x", "l", "s", "x">>)
    \/ EndsWith(filename, <<".", "x", "l", "s">>)

(***************************************************************************)
(* EnhancedExcessProcessor (enhanced_excess_processor.py)                  *)
(*                                                                         *)
(* Numbers are held in units of 1/10000.  float() is modelled for plain    *)
(* decimal numerals: an optional sign, digits, at most one point and at    *)
(* most FracDigits digits after it; anything else raises ValueError.       *)
(***************************************************************************)

FracDigits == 4

DigitVal(c) == Rank[c] - Rank["0"]

RECURSIVE DigitsVal(_)
DigitsVal(s) ==
    IF s = <<>> THEN 0
    ELSE DigitsVal(SubSeq(s, 1, Len(s) - 1)) * 10 + DigitVal(s[Len(s)])

RECURSIVE Pow10(_)
Pow10(n) == IF n = 0 THEN 1 ELSE 10 * Pow10(n - 1)

Scale == Pow10(FracDigits)

\* str.replace(ch, '')
Remove(s, ch) == SelectSeq(s, LAMBDA c : c # ch)

\* float(s) for a text of digits, sign, point and letters: [ok, kind, v].
\* ok = FALSE: ValueError.  kind = "finite": v is the value in units of 1/Scale
\* (texts with at most FracDigits digits after the point); kind = "inf": v is the
\* sign of the infinity; kind = "nan".
ParseFloat(s) ==
    LET signed == s # <<>> /\ Head(s) \in {"-", "+"}
        sign == IF signed /\ Head(s) = "-" THEN -1 ELSE 1
        body == IF signed THEN Tail(s) ELSE s
        dots == {i \in 1..Len(body) : body[i] = "."}
        dot == IF dots = {} THEN Len(body) + 1 ELSE CHOOSE i \in dots : TRUE
        ip == SubSeq(body, 1, dot - 1)
        fp == SubSeq(body, dot + 1, Len(body))
        valid == /\ \A i \in 1..Len(body) : IsDigit(body[i]) \/ body[i] = "."
                 /\ Cardinality(dots) <= 1
                 /\ Len(ip) + Len(fp) >= 1
                 /\ Len(fp) <= FracDigits
        abs == DigitsVal(ip) * Scale + DigitsVal(fp) * Pow10(FracDigits - Len(fp))
    IN  IF lower(body) \in {<<"i", "n", "f">>,
                            <<"i", "n", "f", "i", "n", "i", "t", "y">>}
        THEN [ok |-> TRUE, kind |-> "inf", v |-> sign]
        ELSE IF lower(body) = <<"n", "a", "n">>
        THEN [ok |-> TRUE, kind |-> "nan", v |-> 0]
        ELSE IF valid THEN [ok |-> TRUE, kind |-> "finite", v |-> sign * abs]
        ELSE [ok |-> FALSE, kind |-> "none", v |-> 0]

\* int(x): truncation toward zero of a value in units of 1/Scale
IntOf(v) == IF v >= 0 THEN v \div Scale ELSE -((-v) \div Scale)

\* The text clean_qty_value and clean_price_value hand to float().
QtyStr(qty_value) == Remove(Remove(strip(Str(qty_value)), ","), " ")

\* clean_qty_value raises: int() of an infinity is an OverflowError, which the
\* except clause (ValueError, TypeError) does not catch.
clean_qty_raises(qty_value) ==
    /\ ~isna(qty_value)
    /\ ParseFloat(QtyStr(qty_value)).kind = "inf"

\* clean_qty_value, when it returns (int() of a NaN is a ValueError).
clean_qty_value(qty_value) ==
    IF isna(qty_value) THEN 0
    ELSE LET f == ParseFloat(QtyStr(qty_value))
         IN  IF f.ok /\ f.kind = "finite" THEN IntOf(f.v) ELSE 0

\* A price: null (None), or a float: v in units of 1/Scale when kind = "finite",
\* the sign of the infinity when kind = "inf".
NullPrice == [null |-> TRUE, kind |-> "none", v |-> 0]
PriceOf(v) == [null |-> FALSE, kind |-> "finite", v |-> v]

MarkupPercent == 112

\* round(x, 4) of x = n / 100 units of 1/Scale, to the nearest unit, for n >= 0
\* (n * 112 / 100 never lies halfway between two units).
RoundUnits(n) == (n + 50) \div 100

\* round(base_price * 1.12, 4) in units of 1/Scale; the hundreds of units are
\* marked up exactly and only the rest is rounded.
MarkUp(v) ==
    LET a == IF v >= 0 THEN v ELSE -v
        target_price == (a \div 100) * MarkupPercent + RoundUnits((a % 100) * MarkupPercent)
    IN  IF v >= 0 THEN target_price ELSE -target_price

\* A price cleaning that answers 0 where the text is no number.
clean_price_value_or_zero(price_value) ==
    IF isna(price_value) THEN NullPrice
    ELSE LET base_price == ParseFloat(Remove(Remove(QtyStr(price_value), "$"), ","))
         IN  IF base_price.kind = "finite"
             THEN PriceOf(MarkUp(base_price.v))
             ELSE PriceOf(0)

clean_price_value(price_value) ==
    IF isna(price_value) THEN NullPrice
    ELSE LET price_str ==
                 Remove(Remove(Remove(strip(Str(price_value)), "$"), ","), " ")
             base_price == ParseFloat(price_str)
         IN  IF ~base_price.ok THEN NullPrice
             ELSE IF base_price.kind = "finite"
             THEN PriceOf(MarkUp(base_price.v))
             ELSE [null |-> FALSE, kind |-> base_price.kind, v |-> base_price.v]

sMatch == <<"m", "a", "t", "c", "h">>
sMatching == <<"m", "a", "t", "c", "h", "i", "n", "g">>
sMicronStock == <<"M", "i", "c", "r", "o", "n", " ", "s", "t", "o", "c", "k">>
sGlobal == <<"g", "l", "o", "b", "a", "l">>
sMpnLower == <<"m", "p", "n">>
sQTY == <<"Q", "T", "Y">>
sStockQTY == <<"S", "t", "o", "c", "k", " ", "Q", "T", "Y">>
sPrice == <<"P", "r", "i", "c", "e">>

\* The column labels of a sheet read by pd.read_excel: its first row.
Columns(grid) == IF grid = <<>> THEN <<>> ELSE [i \in 1..Len(grid[1]) |-> Str(grid[1][i])]

\* The positions of the columns whose label satisfies Test, in sheet order.
ColumnsWhere(columns, Test(_)) ==
    SelectSeq([i \in 1..Len(columns) |-> i], LAMBDA i : Test(columns[i]))

\* The position of the column labelled label.
ColumnAt(columns, label) == CHOOSE i \in 1..Len(columns) : columns[i] = label

IsMpnColumn(col) == Contains(lower(col), sMpnLower)

\* A sheet test that compares the name as it is written.
SheetSkippedAsWritten(filename, sheet_name) ==
    \/ Contains(sheet_name, sMatch)
    \/ Contains(filename, sMicronStock) /\ lower(sheet_name) = sGlobal

\* A quantity column search without the preference for 'QTY' and 'Stock QTY'.
find_first_qty_column(columns) ==
    LET hits == {i \in 1..Len(columns) :
                    \/ Contains(lower(columns[i]), <<"q", "t", "y">>)
                    \/ Contains(lower(columns[i]), <<"q", "u", "a", "n", "t", "i", "t", "y">>)
                    \/ Contains(lower(columns[i]), <<"s", "t", "o", "c", "k">>)}
    IN  IF hits = {} THEN 0 ELSE CHOOSE i \in hits : \A j \in hits : i <= j

\* find_relevant_sheet: the position of the sheet used (0: None, None).
SheetSkipped(filename, sheet_name) ==
    \/ Contains(lower(sheet_name), sMatch) \/ Contains(lower(sheet_name), sMatching)
    \/ Contains(filename, sMicronStock) /\ lower(sheet_name) = sGlobal

find_relevant_sheet(file, present) ==
    IF ~present \/ ~file.readable THEN 0
    ELSE LET ok == {i \in 1..Len(file.sheets) :
                       /\ ~SheetSkipped(file.name, file.sheets[i].name)
                       /\ ColumnsWhere(Columns(file.sheets[i].grid), IsMpnColumn) # <<>>}
         IN  IF ok = {} THEN 0 ELSE CHOOSE i \in ok : \A j \in ok : i <= j

\* find_qty_column: the position of the quantity column (0: None).
find_qty_column(columns) ==
    LET IsQty(col) ==
            \/ Contains(lower(col), <<"q", "t", "y">>)
            \/ Contains(lower(col), <<"q", "u", "a", "n", "t", "i", "t", "y">>)
            \/ Contains(lower(col), <<"s", "t", "o", "c", "k">>)
        qty_columns == ColumnsWhere(columns, IsQty)
        labels == {columns[qty_columns[i]] : i \in 1..Len(qty_columns)}
    IN  IF sQTY \in labels THEN ColumnAt(columns, sQTY)
        ELSE IF sStockQTY \in labels THEN ColumnAt(columns, sStockQTY)
        ELSE IF qty_columns # <<>> THEN qty_columns[1]
        ELSE 0

\* find_price_column: the position of the price column (0: None).
find_price_column(columns) ==
    LET IsPrice(col) ==
            \/ Contains(lower(col), <<"p", "r", "i", "c", "e">>)
            \/ Contains(lower(col), <<"t", "a", "r", "g", "e", "t">>)
            \/ Contains(lower(col), <<"c", "o", "s", "t">>)
        price_columns == ColumnsWhere(columns, IsPrice)
        labels == {columns[price_columns[i]] : i \in 1..Len(price_columns)}
    IN  IF sPrice \in labels THEN ColumnAt(columns, sPrice)
        ELSE IF price_columns # <<>> THEN price_columns[1]
        ELSE 0

\* A cross-reference that keeps only the first master record of an MPN.
RowMatchesFirstOnly(row, mpn_col, qty_col, price_col, master_data, filename) ==
    LET mpn_clean == strip(Str(row[mpn_col]))
        master_matches == SelectSeq(master_data, LAMBDA m : m.MPN = mpn_clean)
        qty_value == IF qty_col # 0 THEN clean_qty_value(row[qty_col]) ELSE 0
        target_price == IF price_col # 0 THEN clean_price_value(row[price_col])
                        ELSE NullPrice
    IN  IF master_matches = <<>> THEN <<>>
        ELSE <<[MPN |-> mpn_clean,
                Weekly_Hot_Parts_Date |-> master_matches[1].Date,
                Reqs_Count |-> master_matches[1].Reqs_Count,
                Manufacturer |-> master_matches[1].Manufacturer,
                Product_Class |-> master_matches[1].Product_Class,
                Description |-> master_matches[1].Description,
                Excess_Filename |-> filename,
                Excess_QTY |-> qty_value,
                Target_Price |-> target_price]>>

\* The match records of one excess row: one per master row with its MPN.
RowMatches(row, mpn_col, qty_col, price_col, master_data, filename) ==
    LET mpn_clean == strip(Str(row[mpn_col]))
        master_matches == SelectSeq(master_data, LAMBDA m : m.MPN = mpn_clean)
        qty_value == IF qty_col # 0 THEN clean_qty_value(row[qty_col]) ELSE 0
        target_price == IF price_col # 0 THEN clean_price_value(row[price_col])
                        ELSE NullPrice
    IN  [i \in 1..Len(master_matches) |->
            [MPN |-> mpn_clean,
             Weekly_Hot_Parts_Date |-> master_matches[i].Date,
             Reqs_Count |-> master_matches[i].Reqs_Count,
             Manufacturer |-> master_matches[i].Manufacturer,
             Product_Class |-> master_matches[i].Product_Class,
             Description |-> master_matches[i].Description,
             Excess_Filename |-> filename,
             Excess_QTY |-> qty_value,
             Target_Price |-> target_price]]

\* The rows of an excess sheet with a non-blank MPN cell.
ExcessRows(grid, mpn_col) ==
    SelectSeq(SheetRows(grid), LAMBDA row : ~MpnBlank(row, mpn_col))

RECURSIVE AllRowMatches(_, _, _, _, _, _)
AllRowMatches(rows, mpn_col, qty_col, price_col, master_data, filename) ==
    IF rows = <<>> THEN <<>>
    ELSE RowMatches(Head(rows), mpn_col, qty_col, price_col, master_data, filename)
             \o AllRowMatches(Tail(rows), mpn_col, qty_col, price_col,
                              master_data, filename)

\* EnhancedExcessProcessor.process_excess_file on processor state
\* x = [master_data, matches_data, processed_files]: [x: the state afterwards,
\* raised: whether the call raised].  master_data = None (load_master_data was
\* never called) makes the lookup of the first non-blank row raise TypeError; a
\* matched row whose quantity is an infinity raises OverflowError after the
\* matches of the rows before it were appended.
process_excess_file(x, file, present) ==
    IF file.name \in x.processed_files THEN [x |-> x, raised |-> FALSE]
    ELSE
    LET sheet == find_relevant_sheet(file, present)
    IN  IF sheet = 0 THEN [x |-> x, raised |-> FALSE]
        ELSE
        LET grid == file.sheets[sheet].grid
            columns == Columns(grid)
            mpn_col == ColumnsWhere(columns, IsMpnColumn)[1]
            qty_col == find_qty_column(columns)
            price_col == find_price_column(columns)
            rows == ExcessRows(grid, mpn_col)
            raising == {i \in 1..Len(rows) :
                           /\ qty_col # 0
                           /\ clean_qty_raises(rows[i][qty_col])
                           /\ \E m \in Range(x.master_data) :
                                  m.MPN = strip(Str(rows[i][mpn_col]))}
        IN  IF rows # <<>> /\ x.master_data = NoFrame
            THEN [x |-> x, raised |-> TRUE]
            ELSE IF raising # {}
            THEN LET first == CHOOSE i \in raising : \A j \in raising : i <= j
                 IN  [x |-> [x EXCEPT
                                !.matches_data =
                                    @ \o AllRowMatches(SubSeq(rows, 1, first - 1),
                                                       mpn_col, qty_col, price_col,
                                                       x.master_data, file.name)],
                      raised |-> TRUE]
            ELSE [x |-> [x EXCEPT
                           !.matches_data =
                               @ \o AllRowMatches(rows, mpn_col, qty_col, price_col,
                                                  IF rows = <<>> THEN <<>>
                                                  ELSE x.master_data,
                                                  file.name),
                           !.processed_files = @ \cup {file.name}],
                  raised |-> FALSE]

\* The order of sort_values(['MPN', 'Weekly_Hot_Parts_Date']).
MatchLess(a, b) ==
    \/ StrLess(a.MPN, b.MPN)
    \/ a.MPN = b.MPN /\ StrLess(a.Weekly_Hot_Parts_Date, b.Weekly_Hot_Parts_Date)

\* update_master_matches without its drop_duplicates.
update_master_matches_keeping_all(x, matches_file) ==
    LET existing_matches ==
            [i \in 1..Len(matches_file) |->
                [k \in DOMAIN matches_file[i] |->
                    IF k \in {"Excess_QTY", "Target_Price"} THEN matches_file[i][k]
                    ELSE ReadCell(matches_file[i][k])]]
        all_matches == existing_matches \o x.matches_data
    IN  IF all_matches = <<>> THEN [file |-> matches_file, result |-> "None"]
        ELSE [file |-> sort_values(all_matches, MatchLess), result |-> "df"]

\* EnhancedExcessProcessor.update_master_matches: [file: the matches file
\* afterwards, result: "None" or "df"].
update_master_matches(x, matches_file) ==
    LET existing_matches ==
            [i \in 1..Len(matches_file) |->
                [k \in DOMAIN matches_file[i] |->
                    IF k \in {"Excess_QTY", "Target_Price"} THEN matches_file[i][k]
                    ELSE ReadCell(matches_file[i][k])]]
        all_matches == existing_matches \o x.matches_data
    IN  IF all_matches = <<>> THEN [file |-> matches_file, result |-> "None"]
        ELSE [file |-> sort_values(drop_duplicates(all_matches), MatchLess),
              result |-> "df"]


(***************************************************************************)
(* The workbooks that can be dropped                                       *)
(*                                                                         *)
(* A workbook is [name, readable, sheets]; readable = FALSE is a file that *)
(* pd.ExcelFile cannot open.  The state holds a workbook by its id.        *)
(***************************************************************************)

sWeeklyHotPartsList == <<"W", "e", "e", "k", "l", "y", " ", "H", "o", "t", " ", "P", "a", "r", "t", "s", " ", "L", "i", "s", "t", " ">>
sXlsx == <<".", "x", "l", "s", "x">>
d0707 == <<"2", "0", "2", "5", ".", "0", "7", ".", "0", "7">>
d0714 == <<"2", "0", "2", "5", ".", "0", "7", ".", "1", "4">>
d0721 == <<"2", "0", "2", "5", ".", "0", "7", ".", "2", "1">>

TitleRow == <<<<"H", "o", "t">>, NaN, NaN, NaN, NaN>>
DateHeader == <<sMPN, sReqsCount, sMFG, sProduct \o <<" ">> \o sClass, sDescription>>
PivotHeader == <<sMPN, sReqsCount>>

\* 'Weekly Hot Parts List 2025.07.07.xlsx': its date sheet lists MPN X on two rows
\* (the second with surrounding blanks) with different other fields.
HotA ==
    [name |-> sWeeklyHotPartsList \o d0707 \o sXlsx,
     readable |-> TRUE,
     sheets |-> <<
        [name |-> d0707,
         grid |-> <<TitleRow, DateHeader,
                    <<<<"X">>, <<"5">>, <<"B">>, <<"I">>, <<"S">>>>,
                    <<<<" ", "X", " ">>, <<"7">>, <<"B">>, NaN, NaN>>>>],
        [name |-> sPivot,
         grid |-> <<<<<<"P", "i", "v">>, NaN>>, PivotHeader, <<<<"X">>, <<"5">>>>>>]>>]

\* 'Weekly Hot Parts List 2025.07.14.xlsx': a sheet for its own date (with a blank
\* and a missing MPN cell) and a second sheet for 2025.07.07
\* that has no Description column.
HotB ==
    [name |-> sWeeklyHotPartsList \o d0714 \o sXlsx,
     readable |-> TRUE,
     sheets |-> <<
        [name |-> d0714,
         grid |-> <<TitleRow, DateHeader,
                    <<<<"X">>, <<"9">>, <<"B">>, <<"I">>, <<"S">>>>,
                    <<<<" ">>, <<"1">>, NaN, NaN, NaN>>,
                    <<NaN, <<"2">>, NaN, NaN, NaN>>,
                    <<<<"Y">>, <<"3">>, <<"M">>, <<"D">>, <<"R">>>>>>],
        [name |-> d0707,
         grid |-> <<SubSeq(TitleRow, 1, 4), SubSeq(DateHeader, 1, 4),
                    <<<<"X">>, <<"8">>, <<"B">>, <<"I">>>>>>],
        [name |-> sPivot,
         grid |-> <<<<<<"P", "i", "v">>, NaN>>, PivotHeader, <<<<"Y">>, <<"3">>>>>>]>>]

\* 'Weekly Hot Parts List 2025.07.21.xlsx': not a readable workbook.
HotC ==
    [name |-> sWeeklyHotPartsList \o d0721 \o sXlsx,
     readable |-> FALSE,
     sheets |-> <<>>]

\* 'Kelly Chen.xlsx': an output sheet to skip, then the data sheet.
ExcessA ==
    [name |-> <<"K", "e", "l", "l", "y", " ", "C", "h", "e", "n">> \o sXlsx,
     readable |-> TRUE,
     sheets |-> <<
        [name |-> <<"M", "a", "t", "c", "h", "i", "n", "g", " ", "S", "u", "m", "m", "a", "r", "y">>,
         grid |-> <<<<sMPN, <<"D", "a", "t", "e">>>>, <<<<"X">>, d0707>>>>],
        [name |-> <<"R", "a", "w", " ", "D", "a", "t", "a">>,
         grid |-> <<<<sMPN, sStockQTY, sQTY, <<"C", "o", "s", "t">>, sPrice>>,
                    <<<<" ", "X", " ">>, <<"3">>, <<"1", ",", "2", "5", "0">>, <<"9">>, <<"$", "1", "0", ".", "0", "0">>>>,
                    <<NaN, <<"3">>, <<"3">>, <<"9">>, <<"9">>>>,
                    <<<<"Z">>, <<"3">>, <<"a", "b", "c">>, <<"9">>, <<>>>>>>]>>]

\* 'BCM Excess.xlsx': no MPN of it is a hot part.
ExcessB ==
    [name |-> <<"B", "C", "M", " ", "E", "x", "c", "e", "s", "s">> \o sXlsx,
     readable |-> TRUE,
     sheets |-> <<
        [name |-> <<"S", "h", "e", "e", "t", "1">>,
         grid |-> <<<<<<"P", "a", "r", "t", " ", "M", "P", "N">>, sStockQTY>>,
                    <<<<"Z">>, <<"5">>>>>>]>>]

\* 'Dock Overstock.xlsx': no column names an MPN.
ExcessC ==
    [name |-> <<"D", "o", "c", "k", " ", "O", "v", "e", "r", "s", "t", "o", "c", "k">>
              \o sXlsx,
     readable |-> TRUE,
     sheets |-> <<
        [name |-> <<"S", "h", "e", "e", "t", "1">>,
         grid |-> <<<<<<"P", "a", "r", "t">>, sQTY>>,
                    <<<<"X">>, <<"5">>>>>>]>>]

HotIds == {"HotA", "HotB", "HotC"}
ExcessIds == {"ExcessA", "ExcessB", "ExcessC"}
FileIds == HotIds \cup ExcessIds

File(id) ==
    CASE id = "HotA" -> HotA
      [] id = "HotB" -> HotB
      [] id = "HotC" -> HotC
      [] id = "ExcessA" -> ExcessA
      [] id = "ExcessB" -> ExcessB
      [] id = "ExcessC" -> ExcessC


(***************************************************************************)
(* State                                                                   *)
(***************************************************************************)

VARIABLES
    unprocessed,        \* ids of the workbooks in the watched directory
    processed,          \* <<id, marker>>: moved to the processed directory, marker
                        \* "ok" (own name) or "ERROR" (_ERROR suffix)
    error_files,        \* ids with a sibling <file>.error in the watched directory
    master_file,        \* Master_Hot_Parts_Data.xlsx
    pivot_file,         \* Master_Pivot_Data.xlsx
    matches_file,       \* Master_Matches_Data.xlsx
    processing_files,   \* handler.processing_files
    master_data_cache,  \* handler.master_data_cache
    pivot_data_cache,   \* handler.pivot_data_cache
    parser,             \* the handler's HotPartsParser: [master_data, pivot_data]
    xs,                 \* the EnhancedExcessProcessor: [master_data, matches_data,
                        \* processed_files]
    events,             \* the observer's queue of file events
    pc,                 \* where each thread is
    cur,                \* the file of the pass each thread runs ("-": none)
    new_master_data,    \* process_hot_parts_file's local new_master_data, per thread
    result,             \* how each thread's pass has ended so far
    scan_todo,          \* process_existing_files: the listing still to iterate
    drops,              \* files dropped so far
    db,                 \* hotparts.db: [hot_parts, excess_inventory, matches]
    last_pass           \* what the latest completed pass of a sequential handler did

vars ==
    <<unprocessed, processed, error_files, master_file, pivot_file, matches_file,
      processing_files, master_data_cache, pivot_data_cache, parser, xs, events,
      pc, cur, new_master_data, result, scan_todo, drops, db, last_pass>>

dirs == <<unprocessed, processed, error_files>>
hot_files == <<master_file, pivot_file>>
caches == <<master_data_cache, pivot_data_cache>>
threads == <<pc, cur, new_master_data, result, scan_todo>>

\* The files dropped while a handler runs, and those present when it starts.
MaxDrops == 1
MaxExisting == 2

Threads == {"main", "observer"}

NoPass == [kind |-> "none"]

\* The state shared by every deployment before any handler has run.
\* EnhancedExcessProcessor.__init__
NewProcessor ==
    [master_data |-> NoFrame, matches_data |-> <<>>, processed_files |-> {}]

InitCommon ==
    /\ processed = {}
    /\ error_files = {}
    /\ master_file = <<>>
    /\ pivot_file = <<>>
    /\ matches_file = <<>>
    /\ processing_files = {}
    /\ master_data_cache = NoFrame
    /\ pivot_data_cache = NoFrame
    /\ parser = [master_data |-> <<>>, pivot_data |-> <<>>]
    /\ events = <<>>
    /\ cur = [t \in Threads |-> "-"]
    /\ new_master_data = [t \in Threads |-> <<>>]
    /\ result = [t \in Threads |-> "-"]
    /\ scan_todo = {}
    /\ drops = 0
    /\ db = [hot_parts |-> <<>>, excess_inventory |-> <<>>, matches |-> <<>>]
    /\ last_pass = NoPass

(***************************************************************************)
(* The unified handler (unified_auto_processor.py)                         *)
(*                                                                         *)
(* UnifiedAutoProcessor.start starts the observer and then, on the main    *)
(* thread, runs process_existing_files; the observer thread delivers the   *)
(* file events one at a time to on_created / on_moved.  Both threads call  *)
(* process_file on the one UnifiedFileHandler.  A pass is a sequence of    *)
(* steps, each a block of process_file between two blocking calls (the     *)
(* sleeps, and the reads and writes of files).                             *)
(***************************************************************************)

Init ==
    /\ InitCommon
    /\ xs = NewProcessor
    /\ unprocessed \in {s \in SUBSET FileIds : Cardinality(s) <= MaxExisting}
    /\ pc = [t \in Threads |-> IF t = "main" THEN "scan" ELSE "idle"]

\* A user drops workbook f into the watched directory; the observer queues the event.
Drop(f, kind) ==
    /\ drops < MaxDrops
    /\ f \notin unprocessed
    /\ unprocessed' = unprocessed \cup {f}
    /\ events' = Append(events, [kind |-> kind, file |-> f])
    /\ drops' = drops + 1
    /\ UNCHANGED <<db, processed, error_files, hot_files, matches_file, processing_files,
                   caches, parser, xs, threads, last_pass>>

\* process_existing_files: os.listdir.
Scan ==
    /\ pc["main"] = "scan"
    /\ scan_todo' = unprocessed
    /\ pc' = [pc EXCEPT !["main"] = "loop"]
    /\ UNCHANGED <<db, dirs, hot_files, matches_file, processing_files, caches, parser,
                   xs, events, cur, new_master_data, result, drops, last_pass>>

\* process_existing_files: the next name of the listing (in any order); a name that
\* is still a file and ends in .xlsx / .xls goes to process_file.
ScanNext(f) ==
    /\ pc["main"] = "loop"
    /\ f \in scan_todo
    /\ scan_todo' = scan_todo \ {f}
    /\ IF f \in unprocessed /\ IsExcelName(File(f).name)
       THEN /\ pc' = [pc EXCEPT !["main"] = "begin"]
            /\ cur' = [cur EXCEPT !["main"] = f]
       ELSE UNCHANGED <<pc, cur>>
    /\ UNCHANGED <<db, dirs, hot_files, matches_file, processing_files, caches, parser,
                   xs, events, new_master_data, result, drops, last_pass>>

\* process_existing_files returns; start() sleeps until interrupted.
ScanDone ==
    /\ pc["main"] = "loop"
    /\ scan_todo = {}
    /\ pc' = [pc EXCEPT !["main"] = "idle"]
    /\ UNCHANGED <<db, dirs, hot_files, matches_file, processing_files, caches, parser,
                   xs, events, cur, new_master_data, result, scan_todo, drops,
                   last_pass>>

\* on_created / on_moved: an event for a name in processing_files is ignored;
\* otherwise the handler sleeps a second and calls process_file.
Dispatch ==
    /\ pc["observer"] = "idle"
    /\ events # <<>>
    /\ events' = Tail(events)
    /\ LET filename == Head(events).file
       IN  IF filename \notin processing_files /\ IsExcelName(File(filename).name)
           THEN /\ pc' = [pc EXCEPT !["observer"] = "begin"]
                /\ cur' = [cur EXCEPT !["observer"] = filename]
           ELSE UNCHANGED <<pc, cur>>
    /\ UNCHANGED <<db, dirs, hot_files, matches_file, processing_files, caches, parser,
                   xs, new_master_data, result, scan_todo, drops, last_pass>>

\* process_file: the file is marked as being processed and its type decided.
Begin(t) ==
    /\ pc[t] = "begin"
    /\ processing_files' = processing_files \cup {cur[t]}
    /\ pc' = [pc EXCEPT ![t] = IF is_hot_parts_file(File(cur[t]).name)
                                THEN "load" ELSE "xref"]
    /\ UNCHANGED <<db, dirs, hot_files, matches_file, caches, parser, xs, events, cur,
                   new_master_data, result, scan_todo, drops, last_pass>>

\* load_existing_master_files
Load(t) ==
    /\ pc[t] = "load"
    /\ master_data_cache' = read_excel(master_file)
    /\ pivot_data_cache' = read_excel(pivot_file)
    /\ pc' = [pc EXCEPT ![t] = "parse"]
    /\ UNCHANGED <<db, dirs, hot_files, matches_file, processing_files, parser, xs,
                   events, cur, new_master_data, result, scan_todo, drops, last_pass>>

\* self.hot_parts_parser.process_file(file_path)
Parse(t) ==
    /\ pc[t] = "parse"
    /\ parser' = ParserProcessFile(parser, File(cur[t]), cur[t] \in unprocessed)
    /\ pc' = [pc EXCEPT ![t] = "dedupe"]
    /\ UNCHANGED <<db, dirs, hot_files, matches_file, processing_files, caches, xs,
                   events, cur, new_master_data, result, scan_todo, drops, last_pass>>

\* The two chunk loops of process_hot_parts_file, each run when the parser's list
\* is not empty.
Dedupe(t) ==
    /\ pc[t] = "dedupe"
    /\ LET m == DedupeLoop(parser.master_data, master_data_cache, <<>>)
       IN  /\ master_data_cache' = m.cache
           /\ new_master_data' = [new_master_data EXCEPT ![t] = m.data]
    /\ LET p == DedupeLoop(parser.pivot_data, pivot_data_cache, <<>>)
       IN  /\ pivot_data_cache' = p.cache
           /\ parser' = [master_data |-> new_master_data'[t], pivot_data |-> p.data]
    /\ pc' = [pc EXCEPT ![t] = "move"]
    /\ UNCHANGED <<db, dirs, hot_files, matches_file, processing_files, xs, events, cur,
                   result, scan_todo, drops, last_pass>>

\* shutil.move(file_path, processed_path): raises when the file is gone.
MoveFile(t, next) ==
    IF cur[t] \in unprocessed
    THEN /\ unprocessed' = unprocessed \ {cur[t]}
         /\ processed' = processed \cup {<<cur[t], "ok">>}
         /\ result' = [result EXCEPT ![t] = "moved"]
         /\ pc' = [pc EXCEPT ![t] = next]
    ELSE /\ pc' = [pc EXCEPT ![t] = "except"]
         /\ UNCHANGED <<unprocessed, processed, result>>

\* save_hot_parts_to_database (it swallows its own errors and touches none of the
\* files) and the move to the processed directory.
Move(t) ==
    /\ pc[t] = "move"
    /\ MoveFile(t, "compile")
    /\ UNCHANGED <<db, error_files, hot_files, matches_file, processing_files, caches,
                   parser, xs, events, cur, new_master_data, scan_todo, drops,
                   last_pass>>

\* update_hot_parts_master_files: compile_master_files, then the caches are reloaded.
Compile(t) ==
    /\ pc[t] = "compile"
    /\ LET files == compile_master_files(parser, [master |-> master_file,
                                                  pivot |-> pivot_file])
       IN  /\ master_file' = files.master
           /\ pivot_file' = files.pivot
    /\ master_data_cache' = read_excel(master_file')
    /\ pivot_data_cache' = read_excel(pivot_file')
    /\ pc' = [pc EXCEPT ![t] = "finally"]
    /\ UNCHANGED <<db, dirs, matches_file, processing_files, parser, xs, events, cur,
                   new_master_data, result, scan_todo, drops, last_pass>>

\* process_excess_file: self.excess_processor.process_excess_file(file_path); the
\* handler never calls load_master_data nor update_master_matches.
XRef(t) ==
    /\ pc[t] = "xref"
    /\ LET r == process_excess_file(xs, File(cur[t]), cur[t] \in unprocessed)
       IN  /\ xs' = r.x
           /\ pc' = [pc EXCEPT ![t] = IF r.raised THEN "except" ELSE "xmove"]
    /\ UNCHANGED <<db, dirs, hot_files, matches_file, processing_files, caches, parser,
                   events, cur, new_master_data, result, scan_todo, drops, last_pass>>

\* save_excess_to_database (it swallows its own errors) and the move.
XMove(t) ==
    /\ pc[t] = "xmove"
    /\ MoveFile(t, "finally")
    /\ UNCHANGED <<db, error_files, hot_files, matches_file, processing_files, caches,
                   parser, xs, events, cur, new_master_data, scan_todo, drops,
                   last_pass>>

\* except Exception: create_error_file; the file stays where it is.
Except(t) ==
    /\ pc[t] = "except"
    /\ error_files' = error_files \cup {cur[t]}
    /\ result' = [result EXCEPT ![t] = "error"]
    /\ pc' = [pc EXCEPT ![t] = "finally"]
    /\ UNCHANGED <<db, unprocessed, processed, hot_files, matches_file, processing_files,
                   caches, parser, xs, events, cur, new_master_data, scan_todo,
                   drops, last_pass>>

\* finally: self.processing_files.discard(filename); process_file returns.
Finally(t) ==
    /\ pc[t] = "finally"
    /\ processing_files' = processing_files \ {cur[t]}
    /\ pc' = [pc EXCEPT ![t] = IF t = "main" THEN "loop" ELSE "idle"]
    /\ cur' = [cur EXCEPT ![t] = "-"]
    /\ new_master_data' = [new_master_data EXCEPT ![t] = <<>>]
    /\ result' = [result EXCEPT ![t] = "-"]
    /\ UNCHANGED <<db, dirs, hot_files, matches_file, caches, parser, xs, events,
                   scan_todo, drops, last_pass>>

Next ==
    \/ \E f \in FileIds, kind \in {"created", "moved"} : Drop(f, kind)
    \/ Scan
    \/ \E f \in FileIds : ScanNext(f)
    \/ ScanDone
    \/ Dispatch
    \/ \E t \in Threads :
          \/ Begin(t)
          \/ Load(t)
          \/ Parse(t)
          \/ Dedupe(t)
          \/ Move(t)
          \/ Compile(t)
          \/ XRef(t)
          \/ XMove(t)
          \/ Except(t)
          \/ Finally(t)

Spec == Init /\ [][Next]_vars


(***************************************************************************)
(* The two watching processes of the file pipeline                         *)
(*                                                                         *)
(* enhanced_auto_processor.py watches for hot-parts workbooks and          *)
(* excess_auto_processor.py for excess workbooks.  Each is sequential: it  *)
(* scans the files present at its start before its observer starts, and    *)
(* the observer delivers one event at a time.  The two processes meet only *)
(* in the master file, which the excess process reads once, at its start;  *)
(* a pass of either is one step here.                                      *)
(***************************************************************************)

\* The passes of one run of the pipeline.
MaxPasses == 4

InitPipeline ==
    /\ InitCommon
    /\ xs = NewProcessor
    /\ unprocessed = {}
    /\ pc = [t \in Threads |-> "idle"]

\* process_file with the discard as the last statement of the try: a pass that
\* raises keeps its marker.
MarkersAfterTry(markers, filename, raised) ==
    IF raised THEN markers \cup {filename} ELSE (markers \cup {filename}) \ {filename}

\* process_file: the marker is added before the try and discarded in its finally,
\* whether the try raised or not.
MarkersAfter(markers, filename, raised) == (markers \cup {filename}) \ {filename}

\* EnhancedExcelFileHandler.on_created / on_moved / process_existing_files for the
\* workbook f, with the whole of a process_file in which nothing raises.
EnhancedPass(f) ==
    /\ drops < MaxPasses
    /\ drops' = drops + 1
    /\ IF IsExcelName(File(f).name) /\ Contains(File(f).name, sWeeklyHotPartsList)
       THEN /\ parser' =
                   LET parsed == ParserProcessFile(parser, File(f), TRUE)
                   IN  [master_data |->
                            DedupeLoop(parsed.master_data, read_excel(master_file),
                                       <<>>).data,
                        pivot_data |->
                            DedupeLoop(parsed.pivot_data, read_excel(pivot_file),
                                       <<>>).data]
            /\ processed' = processed \cup {<<f, "ok">>}
            /\ processing_files' = MarkersAfter(processing_files, f, FALSE)
            /\ LET files == compile_master_files(parser', [master |-> master_file,
                                                           pivot |-> pivot_file])
               IN  /\ master_file' = files.master
                   /\ pivot_file' = files.pivot
            /\ master_data_cache' = read_excel(master_file')
            /\ pivot_data_cache' = read_excel(pivot_file')
            /\ last_pass' = [kind |-> "hot", file |-> f,
                             again |-> <<f, "ok">> \in processed,
                             new_records |-> Len(concat(parser'.master_data)),
                             master_before |-> master_file,
                             pivot_before |-> pivot_file]
       ELSE UNCHANGED <<processed, hot_files, caches, parser, processing_files,
                        last_pass>>
    /\ UNCHANGED <<db, unprocessed, error_files, matches_file, xs, events, threads>>

\* ExcessFileHandler.__init__: the master data is loaded once; without a master
\* file the process does not start.
ExcessStart ==
    /\ xs.master_data = NoFrame
    /\ master_file # <<>>
    /\ xs' = [xs EXCEPT !.master_data = read_excel(master_file)]
    /\ UNCHANGED <<db, dirs, hot_files, matches_file, processing_files, caches, parser,
                   events, threads, drops, last_pass>>

\* ExcessFileHandler.on_created / on_moved / check_existing_files for the workbook
\* f, with the whole of ExcessFileHandler.process_excess_file.
ExcessPass(f) ==
    /\ xs.master_data # NoFrame
    /\ drops < MaxPasses
    /\ drops' = drops + 1
    /\ IF ExcessHandlerIsExcessFile(File(f).name)
       THEN /\ xs' = process_excess_file(xs, File(f), TRUE).x
            /\ LET u == update_master_matches(xs', matches_file)
               IN  /\ matches_file' = u.file
                   /\ processed' = processed \cup
                          {<<f, IF u.result = "None" THEN "ERROR" ELSE "ok">>}
            /\ last_pass' = [kind |-> "excess", file |-> f,
                             marker |-> IF update_master_matches(xs', matches_file)
                                              .result = "None"
                                        THEN "ERROR" ELSE "ok",
                             matches_found |-> Len(xs'.matches_data)
                                               - Len(xs.matches_data),
                             matches_before |-> matches_file]
       ELSE UNCHANGED <<processed, matches_file, xs, last_pass>>
    /\ UNCHANGED <<db, unprocessed, error_files, hot_files, processing_files, caches,
                   parser, events, threads>>

NextPipeline ==
    \/ \E f \in FileIds : EnhancedPass(f)
    \/ ExcessStart
    \/ \E f \in FileIds : ExcessPass(f)

SpecPipeline == InitPipeline /\ [][NextPipeline]_vars

\* The same for a process_file whose shutil.move to the processed directory
\* raises (the workbook is open elsewhere, or the name is taken): the parser and
\* the caches are as the chunk loops have left them, update_master_files is not
\* reached, and the except block moves the workbook to its _ERROR name; when
\* that move raises too, the exception leaves process_file.
EnhancedMoveFails(f) ==
    /\ drops < MaxPasses
    /\ IsExcelName(File(f).name)
    /\ Contains(File(f).name, sWeeklyHotPartsList)
    /\ drops' = drops + 1
    /\ LET parsed == ParserProcessFile(parser, File(f), TRUE)
           m == DedupeLoop(parsed.master_data, read_excel(master_file), <<>>)
           p == DedupeLoop(parsed.pivot_data, read_excel(pivot_file), <<>>)
       IN  /\ parser' = [master_data |-> m.data, pivot_data |-> p.data]
           /\ master_data_cache' = m.cache
           /\ pivot_data_cache' = p.cache
    /\ \E error_moved \in BOOLEAN :
           /\ processed' = IF error_moved THEN processed \cup {<<f, "ERROR">>}
                           ELSE processed
           /\ last_pass' = [kind |-> "failed", file |-> f, raised |-> ~error_moved,
                            master_before |-> master_file,
                            pivot_before |-> pivot_file]
    /\ processing_files' = MarkersAfter(processing_files, f, TRUE)
    /\ UNCHANGED <<db, unprocessed, error_files, hot_files, matches_file, xs, events,
                   threads>>

\* An exception that leaves process_file ends process_existing_files and with it
\* start(), or the thread of the observer: no pass follows it.
Stopped == last_pass.kind = "failed" /\ last_pass.raised

EnhancedPassAlive(f) == ~Stopped /\ EnhancedPass(f)

EnhancedMoveFailsAlive(f) == ~Stopped /\ EnhancedMoveFails(f)

NextFailures ==
    \/ \E f \in FileIds : EnhancedPassAlive(f)
    \/ \E f \in FileIds : EnhancedMoveFailsAlive(f)

SpecFailures == InitPipeline /\ [][NextFailures]_vars


(***************************************************************************)
(* The cross-reference of one excess workbook                              *)
(*                                                                         *)
(* EnhancedExcessProcessor.process_excess_file as a function of the master *)
(* data the processor has loaded and of the rows of the workbook.          *)
(***************************************************************************)

\* The records of a loaded master and the rows of a workbook.
MaxMaster == 3
MaxRows == 2

HotRecord(mpn, date, reqs, mfg, class, desc) ==
    [MPN |-> mpn, Date |-> date, Reqs_Count |-> reqs, Manufacturer |-> mfg,
     Product_Class |-> class, Description |-> desc]

\* Master records: an MPN on two dates, another MPN, and one that differs in case.
FanRecords ==
    {HotRecord(<<"X">>, d0707, <<"5">>, <<"B">>, <<"I">>, <<"S">>),
     HotRecord(<<"X">>, d0714, <<"9">>, <<"B">>, <<"I">>, NaN),
     HotRecord(<<"Y">>, d0714, <<"3">>, <<"M">>, <<"D">>, <<"R">>),
     HotRecord(<<"x">>, d0707, <<"4">>, <<"M">>, <<"D">>, <<"R">>)}

\* Rows of an excess sheet with the columns MPN, QTY, Price.
FanRows ==
    {<<<<"X">>, <<"3">>, <<"$", "1", "0", ".", "0", "0">>>>,
     <<<<" ", "X", " ">>, <<"1", ",", "2", "5", "0">>, <<"9">>>>,
     <<<<"Y">>, NaN, NaN>>,
     <<<<"Z">>, <<"3">>, <<"9">>>>,
     <<<<" ">>, <<"3">>, <<"9">>>>,
     <<NaN, <<"3">>, <<"9">>>>}

RECURSIVE SeqOf(_)
SeqOf(S) == IF S = {} THEN <<>> ELSE LET e == CHOOSE e \in S : TRUE
                                    IN  <<e>> \o SeqOf(S \ {e})

\* The master files compile_master_files can leave: sorted, no row twice.
FanMasters ==
    {sort_values(SeqOf(S), MpnDateLess) :
        S \in {S \in SUBSET FanRecords : Cardinality(S) \in 1..MaxMaster}}

RECURSIVE SeqsUpTo(_, _)
SeqsUpTo(S, n) ==
    IF n = 0 THEN {<<>>}
    ELSE SeqsUpTo(S, n - 1)
             \cup {Append(s, e) : s \in SeqsUpTo(S, n - 1), e \in S}

FanWorkbook(rows) ==
    [name |-> ExcessA.name,
     readable |-> TRUE,
     sheets |-> <<[name |-> <<"S", "h", "e", "e", "t", "1">>,
                   grid |-> <<<<sMPN, sQTY, sPrice>>>> \o rows]>>]

InitFanOut ==
    /\ InitCommon
    /\ unprocessed = {}
    /\ pc = [t \in Threads |-> "idle"]
    /\ \E master \in FanMasters : xs = [NewProcessor EXCEPT !.master_data = master]

\* process_excess_file for a workbook with the given rows.
FanOut(rows) ==
    /\ last_pass = NoPass
    /\ xs' = process_excess_file(xs, FanWorkbook(rows), TRUE).x
    /\ last_pass' = [kind |-> "xref", rows |-> rows]
    /\ UNCHANGED <<db, dirs, hot_files, matches_file, processing_files, caches, parser,
                   events, threads, drops>>

NextFanOut == \E rows \in SeqsUpTo(FanRows, MaxRows) : FanOut(rows)

SpecFanOut == InitFanOut /\ [][NextFanOut]_vars

\* The passes of one workbook after its first.
MaxReingests == 2

\* ExcessFileHandler.process_excess_file for the workbook with the given rows:
\* the cross-reference, then update_master_matches unless the former raised.
IngestPass(rows, again) ==
    /\ \E r \in {process_excess_file(xs, FanWorkbook(rows), TRUE)} :
           /\ xs' = r.x
           /\ matches_file' = IF r.raised THEN matches_file
                              ELSE update_master_matches(r.x, matches_file).file
           /\ last_pass' = [kind |-> "ingest", rows |-> rows, again |-> again,
                            matches_found |->
                                Len(r.x.matches_data) - Len(xs.matches_data),
                            before |-> matches_file]
    /\ UNCHANGED <<db, dirs, hot_files, processing_files, caches, parser, events,
                   threads>>

\* The workbook is dropped for the first time.
Ingest ==
    /\ last_pass = NoPass
    /\ \E rows \in SeqsUpTo(FanRows, MaxRows) : IngestPass(rows, FALSE)
    /\ UNCHANGED drops

\* The same workbook is dropped again.
Reingest ==
    /\ last_pass.kind = "ingest"
    /\ drops < MaxReingests
    /\ drops' = drops + 1
    /\ IngestPass(last_pass.rows, TRUE)

\* The process is started again: a new ExcessFileHandler with a new processor,
\* which loads the master file, the same as before.
Restart ==
    /\ last_pass.kind = "ingest"
    /\ xs # [NewProcessor EXCEPT !.master_data = xs.master_data]
    /\ xs' = [NewProcessor EXCEPT !.master_data = xs.master_data]
    /\ UNCHANGED <<db, dirs, hot_files, matches_file, processing_files, caches, parser,
                   events, threads, drops, last_pass>>

NextReingest == Ingest \/ Reingest \/ Restart

SpecReingest == InitFanOut /\ [][NextReingest]_vars

(***************************************************************************)
(* Duplicate detection on its own                                          *)
(*                                                                         *)
(* detect_duplicates and the chunk loop applied to one batch of new        *)
(* records and one master: last_pass records the inputs and the outputs.   *)
(***************************************************************************)

MaxBatch == 2
MaxCache == 2

\* Records of two MPNs and two dates; two of them differ in the count only.
DedupeRecords ==
    {HotRecord(<<"X">>, d0707, <<"5">>, <<"B">>, <<"I">>, <<"S">>),
     HotRecord(<<"X">>, d0707, <<"9">>, <<"B">>, <<"I">>, <<"S">>),
     HotRecord(<<"X">>, d0714, <<"5">>, <<"B">>, <<"I">>, <<"S">>),
     HotRecord(<<"Y">>, d0707, <<"3">>, <<"M">>, <<"D">>, NaN),
     HotRecord(<<"x">>, d0714, <<"4">>, <<"M">>, <<"D">>, <<"R">>)}

InitCall ==
    /\ InitCommon
    /\ unprocessed = {}
    /\ pc = [t \in Threads |-> "idle"]
    /\ xs = NewProcessor

\* One call of detect_duplicates.
DetectDuplicates ==
    /\ last_pass = NoPass
    /\ \E new_data \in SeqsUpTo(DedupeRecords, MaxBatch),
          existing_data \in SeqsUpTo(DedupeRecords, MaxCache) :
           last_pass' = [kind |-> "dedupe", new_data |-> new_data,
                         existing_data |-> existing_data,
                         unique_data |-> detect_duplicates(new_data, existing_data),
                         duplicates |-> duplicates(new_data, existing_data)]
    /\ UNCHANGED <<db, dirs, hot_files, matches_file, processing_files, caches, parser,
                   xs, events, threads, drops>>

\* The chunk loop on one chunk, and a second call of detect_duplicates on the same
\* chunk against the cache the loop left.
DedupeTwice ==
    /\ last_pass = NoPass
    /\ \E chunk \in SeqsUpTo(DedupeRecords, MaxBatch) \ {<<>>},
          cache \in SeqsUpTo(DedupeRecords, MaxCache) :
           LET first == DedupeLoop(<<chunk>>, cache, <<>>)
           IN  last_pass' = [kind |-> "twice", chunk |-> chunk, cache |-> cache,
                             first |-> first,
                             second |-> detect_duplicates(chunk, first.cache)]
    /\ UNCHANGED <<db, dirs, hot_files, matches_file, processing_files, caches, parser,
                   xs, events, threads, drops>>

NextDedupe == DetectDuplicates \/ DedupeTwice

SpecDedupe == InitCall /\ [][NextDedupe]_vars

(***************************************************************************)
(* Cleaning of one quantity cell and one price cell                        *)
(*                                                                         *)
(* clean_qty_value and clean_price_value applied to one cell of an excess  *)
(* sheet: last_pass records the cell and the outcome.                      *)
(***************************************************************************)

MaxCellLen == 3

CellChars == {"$", ",", " ", "-", ".", "0", "1", "5", "a"}

\* Cells: a missing one, every text of up to MaxCellLen characters, and some
\* longer texts.
Cells ==
    SeqsUpTo(CellChars, MaxCellLen)
        \cup {NaN,
              <<"$", "1", "0", ".", "0", "0">>,
              <<"1", ",", "2", "5", "0">>,
              <<"a", "b", "c">>,
              <<"i", "n", "f">>,
              <<"-", "I", "n", "f", "i", "n", "i", "t", "y">>,
              <<"n", "a", "n">>,
              <<"-", "3", ".", "7">>}

\* One call of clean_qty_value: returned is FALSE when the call raised, and qty is
\* then no value of the call.
CleanQty ==
    /\ last_pass = NoPass
    /\ \E cell \in Cells :
           last_pass' = [kind |-> "qty", cell |-> cell,
                         returned |-> ~clean_qty_raises(cell),
                         qty |-> clean_qty_value(cell)]
    /\ UNCHANGED <<db, dirs, hot_files, matches_file, processing_files, caches, parser,
                   xs, events, threads, drops>>

\* One call of clean_price_value.
CleanPrice ==
    /\ last_pass = NoPass
    /\ \E cell \in Cells :
           last_pass' = [kind |-> "price", cell |-> cell,
                         target_price |-> clean_price_value(cell)]
    /\ UNCHANGED <<db, dirs, hot_files, matches_file, processing_files, caches, parser,
                   xs, events, threads, drops>>

NextCells == CleanQty \/ CleanPrice

SpecCells == InitCall /\ [][NextCells]_vars

(***************************************************************************)
(* Sheet and column selection of the excess processor                      *)
(*                                                                         *)
(* find_relevant_sheet applied to one workbook, find_qty_column and        *)
(* find_price_column to the column labels of one sheet: last_pass records  *)
(* the input and the position selected (0: None).                          *)
(***************************************************************************)

MaxSheets == 2
MaxColumns == 3

SheetNames ==
    {<<"M", "a", "t", "c", "h", "i", "n", "g", " ", "S", "u", "m", "m", "a", "r", "y">>,
     <<"R", "a", "w", " ", "D", "a", "t", "a">>,
     <<"G", "l", "o", "b", "a", "l">>,
     <<"R", "E", "M", "A", "T", "C", "H", "E", "D">>}

\* Sheets with an MPN column under two spellings, with none, and an empty sheet.
SheetGrids ==
    {<<<<sMPN, sQTY>>, <<<<"X">>, <<"3">>>>>>,
     <<<<<<"P", "a", "r", "t">>, sQTY>>, <<<<"X">>, <<"3">>>>>>,
     <<<<<<"V", "e", "n", "d", "o", "r", " ", "M", "p", "n">>, sQTY>>, <<<<"X">>, <<"3">>>>>>,
     <<>>}

\* Workbooks of up to MaxSheets sheets with different names.
SheetBooks ==
    {[name |-> name, readable |-> readable, sheets |-> sheets] :
        name \in {ExcessA.name, sMicronStock \o sXlsx},
        readable \in BOOLEAN,
        sheets \in {s \in SeqsUpTo([name : SheetNames, grid : SheetGrids], MaxSheets) :
                       \A i, j \in 1..Len(s) :
                           lower(s[i].name) = lower(s[j].name) => i = j}}

ColumnLabels ==
    {sMPN, sQTY, sStockQTY, sPrice,
     <<"Q", "u", "a", "n", "t", "i", "t", "y">>,
     <<"I", "n", " ", "s", "t", "o", "c", "k">>,
     <<"p", "r", "i", "c", "e">>,
     <<"T", "a", "r", "g", "e", "t">>,
     <<"U", "n", "i", "t", " ", "C", "o", "s", "t">>}

\* The column labels of a sheet: pandas keeps them different.
ColumnLists ==
    {c \in SeqsUpTo(ColumnLabels, MaxColumns) : \A i, j \in 1..Len(c) : c[i] = c[j] => i = j}

FindSheet ==
    /\ last_pass = NoPass
    /\ \E file \in SheetBooks :
           last_pass' = [kind |-> "sheet", file |-> file,
                         sheet |-> find_relevant_sheet(file, TRUE)]
    /\ UNCHANGED <<db, dirs, hot_files, matches_file, processing_files, caches, parser,
                   xs, events, threads, drops>>

FindColumns ==
    /\ last_pass = NoPass
    /\ \E columns \in ColumnLists :
           last_pass' = [kind |-> "columns", columns |-> columns,
                         qty_col |-> find_qty_column(columns),
                         price_col |-> find_price_column(columns)]
    /\ UNCHANGED <<db, dirs, hot_files, matches_file, processing_files, caches, parser,
                   xs, events, threads, drops>>

NextSheets == FindSheet \/ FindColumns

SpecSheets == InitCall /\ [][NextSheets]_vars

(***************************************************************************)
(* Header detection and header mapping of the parser                       *)
(*                                                                         *)
(* clean_dataframe and clean_pivot_data applied to the grid of one sheet   *)
(* as process_file reads it, and the elif chains applied to one header     *)
(* cell: last_pass records the input and the outcome.                      *)
(***************************************************************************)

MaxGridRows == 3

\* Rows of a sheet with two columns: a title, a header with both mandatory
\* keywords, a header with 'MPN' only, two parts and a row without an MPN.
GridRows ==
    {<<<<"H", "o", "t">>, NaN>>,
     <<sMPN, sReqsCount>>,
     <<sMPN, sMFG>>,
     <<<<"X">>, <<"5">>>>,
     <<<<" ", "Y">>, <<"7">>>>,
     <<NaN, <<"3">>>>}

\* Texts of header cells.
HeaderCells ==
    {NaN,
     <<"M", "P", "N">>,
     <<" ", "M", "P", "N", " ">>,
     <<"m", "p", "n">>,
     <<"R", "e", "q", "s", " ", "C", "o", "u", "n", "t">>,
     <<"R", "e", "q", "s", "C", "o", "u", "n", "t">>,
     <<"R", "e", "q", "u", "i", "r", "e", "m", "e", "n", "t", "s", " ", "C", "o", "u", "n", "t">>,
     <<"r", "e", "q", "s", " ", "c", "o", "u", "n", "t">>,
     <<"M", "F", "G">>,
     <<"M", "f", "g">>,
     <<"M", "a", "n", "u", "f", "a", "c", "t", "u", "r", "e", "r">>,
     <<"P", "r", "o", "d", "u", "c", "t", " ", "C", "l", "a", "s", "s">>,
     <<"D", "e", "s", "c", "r", "i", "p", "t", "i", "o", "n">>,
     <<"D", "E", "S", "C", "R", "I", "P", "T", "I", "O", "N">>,
     <<"M", "P", "N", " ", "D", "e", "s", "c", "r", "i", "p", "t", "i", "o", "n">>,
     <<"M", "F", "G", " ", "R", "e", "q", "s", " ", "C", "o", "u", "n", "t">>,
     <<"Q", "t", "y">>}

CleanSheet ==
    /\ last_pass = NoPass
    /\ \E grid \in SeqsUpTo(GridRows, MaxGridRows) :
           last_pass' = [kind |-> "grid", grid |-> grid,
                         cleaned_df |-> clean_dataframe(grid, d0707),
                         cleaned_pivot |-> clean_pivot_data(grid, d0707)]
    /\ UNCHANGED <<db, dirs, hot_files, matches_file, processing_files, caches, parser,
                   xs, events, threads, drops>>

MapHeader ==
    /\ last_pass = NoPass
    /\ \E header \in HeaderCells :
           last_pass' = [kind |-> "header", header |-> header,
                         date_field |-> DateSheetField(header),
                         pivot_field |-> PivotSheetField(header)]
    /\ UNCHANGED <<db, dirs, hot_files, matches_file, processing_files, caches, parser,
                   xs, events, threads, drops>>

NextHeaders == CleanSheet \/ MapHeader

SpecHeaders == InitCall /\ [][NextHeaders]_vars

(***************************************************************************)
(* The dates of the parser                                                 *)
(*                                                                         *)
(* HotPartsParser.process_file and compile_master_files applied, from a    *)
(* new parser and no master files, to one workbook with a date sheet and a *)
(* Pivot sheet: last_pass records the names and the outcome.               *)
(***************************************************************************)

\* Date tokens, well formed and not.
DateTexts == {d0707, d0714, <<"2", "0", "2", "5", ".", "7", ".", "0", "7">>, <<"2", "0", "2", "5", "0", "7", "0", "7">>}

\* What a name carries before and after the token.
NameHeads == {<<>>, <<"v">>}
NameTails == {<<>>, <<" ", "(", "2", ")">>, <<"1">>}

\* The workbook HotA under another file name and with its date sheet renamed.
DatedBook(head, sheet_text, sheet_tail, file_text, file_tail) ==
    [HotA EXCEPT !.name = sWeeklyHotPartsList \o file_text \o file_tail \o sXlsx,
                 !.sheets[1].name = head \o sheet_text \o sheet_tail]

ParseDated ==
    /\ last_pass = NoPass
    /\ \E head \in NameHeads, sheet_text \in DateTexts, sheet_tail \in NameTails,
          file_text \in DateTexts, file_tail \in NameTails :
           LET file == DatedBook(head, sheet_text, sheet_tail, file_text, file_tail)
               parsed == ParserProcessFile(parser, file, TRUE)
           IN  last_pass' = [kind |-> "dates", file |-> file, parser |-> parsed,
                             files |-> compile_master_files(
                                           parsed, [master |-> master_file,
                                                    pivot |-> pivot_file])]
    /\ UNCHANGED <<db, dirs, hot_files, matches_file, processing_files, caches, parser,
                   xs, events, threads, drops>>

SpecDates == InitCall /\ [][ParseDated]_vars


(***************************************************************************)
(* Workbooks with sheets that have no header row                           *)
(*                                                                         *)
(* HotPartsParser.process_file and compile_master_files for workbooks of   *)
(* up to MaxBookSheets sheets, some of them without a header row.          *)
(***************************************************************************)

MaxBookSheets == 3

\* Sheets of two columns: one without a header row, two with a header row below
\* a title (the second with no 'Reqs Count' header), and one whose first row is
\* its header.
BookGrids ==
    {<<<<<<"H", "o", "t">>, NaN>>, <<<<"X">>, <<"5">>>>>>,
     <<<<<<"H", "o", "t">>, NaN>>, <<sMPN, sReqsCount>>, <<<<"X">>, <<"5">>>>>>,
     <<<<<<"H", "o", "t">>, NaN>>, <<sMPN, sMFG>>, <<<<"Y">>, <<"B">>>>>>,
     <<<<sMPN, sReqsCount>>, <<<<"Z">>, <<"5">>>>>>}

BookSheets == {[name |-> name, grid |-> grid] : name \in {d0707, d0714, sPivot},
                                                 grid \in BookGrids}

\* The sheets of a workbook: no two of them have one name.
Books ==
    {sheets \in SeqsUpTo(BookSheets, MaxBookSheets) :
        \A i, j \in 1..Len(sheets) : i # j => sheets[i].name # sheets[j].name}

ParseSheets ==
    /\ last_pass = NoPass
    /\ \E sheets \in Books :
           LET file == [HotA EXCEPT !.sheets = sheets]
               parsed == ParserProcessFile(parser, file, TRUE)
           IN  last_pass' = [kind |-> "sheets", file |-> file, parser |-> parsed,
                             files |-> compile_master_files(
                                           parsed, [master |-> master_file,
                                                    pivot |-> pivot_file])]
    /\ UNCHANGED <<db, dirs, hot_files, matches_file, processing_files, caches, parser,
                   xs, events, threads, drops>>

SpecBooks == InitCall /\ [][ParseSheets]_vars

(***************************************************************************)
(* database_manager.py: the SQLite store hotparts.db.  A table is the      *)
(* sequence of its rows in insertion order.                                *)
(***************************************************************************)

\* dict.get(key, default).
Get(record, key, default) == IF key \in DOMAIN record THEN record[key] ELSE default

\* A Python value sqlite3 cannot bind to a parameter: execute raises.
Unbound == <<"o", "b", "j", "e", "c", "t">>

\* The parameter tuples of the three INSERT statements.
HotPartsRow(record, now) ==
    [mpn |-> Get(record, "MPN", <<>>),
     date |-> Get(record, "Date", <<>>),
     reqs_count |-> Get(record, "Reqs_Count", <<"0">>),
     manufacturer |-> Get(record, "Manufacturer", <<>>),
     product_class |-> Get(record, "Product_Class", <<>>),
     description |-> Get(record, "Description", <<>>),
     source_file |-> Get(record, "source_file", <<>>),
     created_at |-> now]

ExcessRow(record, now) ==
    [mpn |-> Get(record, "MPN", <<>>),
     excess_filename |-> Get(record, "Excess_Filename", <<>>),
     excess_qty |-> Get(record, "Excess_QTY", 0),
     target_price |-> Get(record, "Target_Price", NullPrice),
     manufacturer |-> Get(record, "Manufacturer", <<>>),
     sheet_name |-> Get(record, "sheet_name", <<>>),
     created_at |-> now]

MatchRow(record, now) ==
    [mpn |-> Get(record, "MPN", <<>>),
     hot_parts_date |-> Get(record, "Weekly_Hot_Parts_Date", <<>>),
     reqs_count |-> Get(record, "Reqs_Count", <<"0">>),
     manufacturer |-> Get(record, "Manufacturer", <<>>),
     product_class |-> Get(record, "Product_Class", <<>>),
     description |-> Get(record, "Description", <<>>),
     excess_filename |-> Get(record, "Excess_Filename", <<>>),
     excess_qty |-> Get(record, "Excess_QTY", 0),
     target_price |-> Get(record, "Target_Price", NullPrice),
     created_at |-> now]

RowOf(table, record, now) ==
    CASE table = "hot_parts" -> HotPartsRow(record, now)
      [] table = "excess_inventory" -> ExcessRow(record, now)
      [] table = "matches" -> MatchRow(record, now)

\* cursor.execute raises for a row with a value it cannot bind.
ExecuteRaises(row) == row.mpn = Unbound \/ row.manufacturer = Unbound

\* The UNIQUE constraint of each table of database_schema.sql: the identity key
\* of its record.
UniqueKey(table, row) ==
    CASE table = "hot_parts" -> <<row.mpn, row.date>>
      [] table = "excess_inventory" -> <<row.mpn, row.excess_filename>>
      [] table = "matches" ->
            <<row.mpn, row.hot_parts_date, row.reqs_count, row.manufacturer,
              row.product_class, row.description, row.excess_filename,
              row.excess_qty, row.target_price>>

\* INSERT OR IGNORE: the row is ignored when a row of the table has its key.
Ignored(table, rows, row) ==
    \E i \in 1..Len(rows) : UniqueKey(table, rows[i]) = UniqueKey(table, row)

\* One turn of the 'for record in data' loop that does not count a record whose
\* execute raises.
InsertOneUncounted(table, acc, record, now) ==
    LET row == RowOf(table, record, now)
    IN  IF ExecuteRaises(row) THEN acc
        ELSE IF Ignored(table, acc.rows, row) THEN [acc EXCEPT !.skipped = @ + 1]
        ELSE [acc EXCEPT !.rows = Append(@, row), !.inserted = @ + 1]

\* One turn of the 'for record in data' loop: rowcount is 0 for an ignored row,
\* and the inner except counts a record whose execute raises as skipped.
InsertOne(table, acc, record, now) ==
    LET row == RowOf(table, record, now)
    IN  IF ExecuteRaises(row) \/ Ignored(table, acc.rows, row)
        THEN [acc EXCEPT !.skipped = @ + 1]
        ELSE [acc EXCEPT !.rows = Append(@, row), !.inserted = @ + 1]

\* insert_hot_parts, insert_excess_inventory, insert_matches: the rows of the
\* table afterwards, the count returned and the count logged as skipped.
Insert(table, rows, data, now) ==
    LET f[n \in 0..Len(data)] ==
            IF n = 0 THEN [rows |-> rows, inserted |-> 0, skipped |-> 0]
            ELSE InsertOne(table, f[n - 1], data[n], now)
    IN  IF data = <<>>
        THEN [rows |-> rows, inserted |-> 0, skipped |-> 0]
        ELSE f[Len(data)]

insert_hot_parts(d, data, now) == Insert("hot_parts", d.hot_parts, data, now)
insert_excess_inventory(d, data, now) ==
    Insert("excess_inventory", d.excess_inventory, data, now)
insert_matches(d, data, now) == Insert("matches", d.matches, data, now)

\* ORDER BY date DESC, mpn.
DateDescMpnLess(a, b) ==
    \/ StrLess(b.date, a.date)
    \/ a.date = b.date /\ StrLess(a.mpn, b.mpn)

\* The columns the two SELECT statements of export_to_excel name.
HotPartsColumns ==
    {"mpn", "date", "reqs_count", "manufacturer", "product_class", "description"}
MatchesColumns ==
    {"mpn", "hot_parts_date", "reqs_count", "manufacturer", "product_class",
     "description", "excess_filename", "excess_qty", "target_price"}

Select(rows, columns) ==
    [i \in 1..Len(rows) |-> [c \in columns |-> rows[i][c]]]

\* The orders ORDER BY created_at DESC can return the rows in: rows of one
\* timestamp in any order.
CreatedAtDescOrders(rows) ==
    {[i \in 1..Len(rows) |-> rows[p[i]]] :
        p \in {p \in [1..Len(rows) -> 1..Len(rows)] :
                /\ \A i, j \in 1..Len(rows) : i # j => p[i] # p[j]
                /\ \A i \in 1..(Len(rows) - 1) :
                        rows[p[i]].created_at >= rows[p[i + 1]].created_at}}

\* export_to_excel: the two files it writes, for one order of the matches.
export_to_excel(d, ordered_matches) ==
    [master |-> Select(sort_values(d.hot_parts, DateDescMpnLess), HotPartsColumns),
     matches |-> Select(ordered_matches, MatchesColumns)]

MaxCalls == 2
MaxInsert == 2

DbHot(mpn, date, reqs, mfg) ==
    [MPN |-> mpn, Date |-> date, Reqs_Count |-> reqs, Manufacturer |-> mfg,
     Product_Class |-> <<"I">>, Description |-> <<"S">>]

HotRecords ==
    {DbHot(<<"X">>, d0707, <<"5">>, <<"B">>), DbHot(<<"X">>, d0714, <<"5">>, <<"B">>),
     DbHot(<<"Y">>, d0714, <<"5">>, Unbound)}

DbExcess(mpn, price, mfg) ==
    [MPN |-> mpn, Excess_Filename |-> ExcessA.name, Excess_QTY |-> 3,
     Target_Price |-> price, Manufacturer |-> mfg, sheet_name |-> <<"R">>]

ExcessRecords ==
    {DbExcess(<<"X">>, NullPrice, <<"B">>), DbExcess(<<"X">>, PriceOf(112000), <<"B">>),
     DbExcess(<<"Y">>, NullPrice, Unbound)}

DbMatch(mpn, date, mfg, price) ==
    [MPN |-> mpn, Weekly_Hot_Parts_Date |-> date, Reqs_Count |-> <<"5">>,
     Manufacturer |-> mfg, Product_Class |-> <<"I">>, Description |-> <<"S">>,
     Excess_Filename |-> ExcessA.name, Excess_QTY |-> 3, Target_Price |-> price]

MatchRecords ==
    {DbMatch(<<"X">>, d0707, <<"B">>, PriceOf(112000)),
     DbMatch(<<"X">>, d0714, <<"B">>, PriceOf(112000)),
     DbMatch(<<"Y">>, d0714, Unbound, PriceOf(112000))}

\* One call of an insert function, the rows it adds stamped with the time of the
\* call: the table is replaced by the rows the call leaves and the call is kept
\* with what it returned.
InsertCall(table, data) ==
    LET out == Insert(table, db[table], data, drops + 1)
    IN  /\ db' = [db EXCEPT ![table] = out.rows]
        /\ last_pass' = [kind |-> "insert", table |-> table, data |-> data,
                         before |-> db[table], inserted |-> out.inserted,
                         skipped |-> out.skipped]
        /\ drops' = drops + 1
        /\ UNCHANGED <<dirs, hot_files, matches_file, processing_files, caches, parser,
                       xs, events, threads>>

InsertHotParts ==
    /\ drops < MaxCalls
    /\ \E data \in SeqsUpTo(HotRecords, MaxInsert) :
            InsertCall("hot_parts", data)

InsertExcessInventory ==
    /\ drops < MaxCalls
    /\ \E data \in SeqsUpTo(ExcessRecords, MaxInsert) :
            InsertCall("excess_inventory", data)

InsertMatches ==
    /\ drops < MaxCalls
    /\ \E data \in SeqsUpTo(MatchRecords, MaxInsert) :
            InsertCall("matches", data)

ExportToExcel ==
    /\ \E ordered_matches \in CreatedAtDescOrders(db.matches) :
            LET files == export_to_excel(db, ordered_matches)
            IN  /\ master_file' = files.master
                /\ matches_file' = files.matches
    /\ last_pass' = [kind |-> "export"]
    /\ UNCHANGED <<db, unprocessed, processed, error_files, pivot_file, processing_files,
                   caches, parser, xs, events, threads, drops>>

NextInserts == InsertHotParts \/ InsertExcessInventory \/ InsertMatches

SpecInserts == InitCall /\ [][NextInserts]_vars

NextDatabase == NextInserts \/ ExportToExcel

SpecDatabase == InitCall /\ [][NextDatabase]_vars

\* LIMIT n of a set of rows in random order: any n of them, all of them when
\* there are no more, and all of them for a negative n, which SQLite reads as no
\* limit.
Limit(S, n) ==
    IF n < 0 \/ n >= Cardinality(S) THEN {S}
    ELSE {T \in SUBSET S : Cardinality(T) = n}

\* WHERE target_price > ?: the comparison with a NULL price is not true.
PricedAbove(rows, min_price) ==
    {[c \in MatchesColumns |-> rows[i][c]] :
        i \in {i \in 1..Len(rows) : /\ ~rows[i].target_price.null
                                     /\ rows[i].target_price.v > min_price}}

\* The query without its condition rn <= 2.
RandomPartsUnranked(rows, count, min_price, max_manufacturers) ==
    LET priced == PricedAbove(rows, min_price)
    IN  UNION {Limit({r \in priced : r.manufacturer \in chosen}, count) :
                  chosen \in Limit({r.manufacturer : r \in priced}, max_manufacturers)}

\* The results the query of get_random_parts can give: the rows above the price
\* of max_manufacturers manufacturers drawn at random, of these the two first
\* of each manufacturer in a random order, of these count drawn at random.
RandomParts(rows, count, min_price, max_manufacturers) ==
    LET priced == PricedAbove(rows, min_price)
        Ranked(chosen) ==
            {R \in SUBSET {r \in priced : r.manufacturer \in chosen} :
                \A m \in chosen :
                    {r \in R : r.manufacturer = m}
                        \in Limit({r \in priced : r.manufacturer = m}, 2)}
    IN  UNION {UNION {Limit(R, count) : R \in Ranked(chosen)} :
                  chosen \in Limit({r.manufacturer : r \in priced}, max_manufacturers)}

\* get_random_parts: the lists it can return, each as the set of its rows; the
\* empty list when the query raises.
get_random_parts(d, count, min_price, max_manufacturers, raises) ==
    IF raises THEN {{}}
    ELSE RandomParts(d.matches, count, min_price, max_manufacturers)

MaxParts == 4
MaxCount == 3

\* Match records of three manufacturers, one of them with three parts, one
\* record without a price.
PartRecords ==
    {DbMatch(<<"X">>, d0707, <<"B">>, PriceOf(150000)),
     DbMatch(<<"X">>, d0714, <<"B">>, PriceOf(200000)),
     DbMatch(<<"Y">>, d0707, <<"B">>, PriceOf(300000)),
     DbMatch(<<"Y">>, d0714, <<"M">>, PriceOf(50000)),
     DbMatch(<<"Z">>, d0707, <<"M">>, NullPrice),
     DbMatch(<<"Z">>, d0714, <<"D">>, PriceOf(500000))}

\* insert_matches(matches_data) into the new database.
LoadParts ==
    /\ db.matches = <<>>
    /\ \E S \in {S \in SUBSET PartRecords : Cardinality(S) \in 1..MaxParts} :
           db' = [db EXCEPT !.matches = insert_matches(db, SeqOf(S), 1).rows]
    /\ UNCHANGED <<dirs, hot_files, matches_file, processing_files, caches, parser, xs,
                   events, threads, drops, last_pass>>

GetRandomParts ==
    /\ \E count \in -1..MaxCount, min_price \in {0, 100000},
          max_manufacturers \in -1..MaxCount, raises \in BOOLEAN :
           \E parts \in get_random_parts(db, count, min_price, max_manufacturers,
                                         raises) :
               last_pass' = [kind |-> "random", count |-> count,
                             min_price |-> min_price,
                             max_manufacturers |-> max_manufacturers,
                             raised |-> raises, parts |-> parts]
    /\ UNCHANGED <<db, dirs, hot_files, matches_file, processing_files, caches, parser,
                   xs, events, threads, drops>>

NextRandomParts == LoadParts \/ GetRandomParts

SpecRandomParts == InitCall /\ [][NextRandomParts]_vars

(***************************************************************************)
(* Claims                                                                  *)
(***************************************************************************)

\* The (MPN, Date) pairs that more than one record of df carries.
SharedKeys(df) ==
    {<<df[i].MPN, df[i].Date>> : i \in {i \in 1..Len(df) :
        \E j \in 1..Len(df) : j # i /\ df[j].MPN = df[i].MPN /\ df[j].Date = df[i].Date}}

\* C1: after any sequence of passes of the unified handler, no two records of the
\* master hot-parts collection have the same MPN and the same date.
C1_MasterKeysUnique == SharedKeys(master_file) = {}

\* C2: a pass of a hot-parts workbook that an earlier pass of the pipeline already
\* processed adds no record: it finds zero new master records and leaves the master
\* and the pivot collections as they were.
C2_ReprocessingAddsNothing ==
    (last_pass.kind = "hot" /\ last_pass.again) =>
        /\ last_pass.new_records = 0
        /\ master_file = last_pass.master_before
        /\ pivot_file = last_pass.pivot_before

\* C3: a step of the pipeline never removes or replaces a record of the master
\* hot-parts collection or of the pivot collection: the collections only grow.
C3_MasterOnlyGrows ==
    [][/\ Range(master_file) \subseteq Range(master_file')
       /\ Range(pivot_file) \subseteq Range(pivot_file')]_vars


\* The trimmed MPNs of the rows that a pass of the excess workbook cross-references.
ExcessMpns(file) ==
    LET sheet == find_relevant_sheet(file, TRUE)
    IN  IF sheet = 0 THEN {}
        ELSE LET grid == file.sheets[sheet].grid
                 mpn_col == ColumnsWhere(Columns(grid), IsMpnColumn)[1]
             IN  {strip(Str(row[mpn_col])) : row \in Range(ExcessRows(grid, mpn_col))}

\* The master records that the rows of the excess workbook match.
MasterMatches(file, master) ==
    {r \in Range(master) : r.MPN \in ExcessMpns(file)}

\* matches holds a match of master record r with the excess workbook.
HasMatch(matches, r, file) ==
    \E m \in Range(matches) :
        /\ m.MPN = r.MPN
        /\ m.Weekly_Hot_Parts_Date = r.Date
        /\ m.Reqs_Count = r.Reqs_Count
        /\ m.Excess_Filename = file.name

\* C5: in every state of the pipeline, for every excess workbook the excess process
\* has processed and every row of it with an MPN, the matches collection holds a
\* match for every record of the master hot-parts collection with that MPN, also
\* for records merged after the excess process loaded its master data.
C5_MatchesComplete ==
    \A f \in FileIds :
        File(f).name \in xs.processed_files =>
            \A r \in MasterMatches(File(f), master_file) :
                HasMatch(matches_file, r, File(f))

\* C6: when the unified handler cross-references an excess workbook that has a row
\* whose MPN is in the master hot-parts collection, the call does not fail and the
\* match records of those rows are among the handler's matches.
C6_UnifiedExcessPassMatches ==
    [][\A t \in Threads :
          (/\ pc[t] = "xref"
           /\ pc'[t] # "xref"
           /\ MasterMatches(File(cur[t]), master_file) # {}) =>
              /\ pc'[t] = "xmove"
              /\ \A r \in MasterMatches(File(cur[t]), master_file) :
                     \/ HasMatch(xs'.matches_data, r, File(cur[t]))
                     \/ HasMatch(matches_file', r, File(cur[t]))]_vars

\* C7: a pass of the excess process for a workbook none of whose MPNs is in the
\* master hot-parts collection finds no match, leaves the matches collection as it
\* was, and moves the workbook to the processed directory under its own name.
C7_ZeroMatchesIsSuccess ==
    (/\ last_pass.kind = "excess"
     /\ MasterMatches(File(last_pass.file), master_file) = {}
     /\ MasterMatches(File(last_pass.file), xs.master_data) = {}) =>
        /\ last_pass.matches_found = 0
        /\ matches_file = last_pass.matches_before
        /\ last_pass.marker = "ok"

\* A thread is inside process_file.
InPass(t) == pc[t] \notin {"idle", "scan", "loop", "begin"}

\* C8: no two passes of the unified handler for the same filename are in flight at
\* the same time.
C8_OnePassPerFilename ==
    (InPass("main") /\ InPass("observer")) => cur["main"] # cur["observer"]

\* C9: two passes of the unified handler that run at the same time for distinct
\* hot-parts workbooks never both decide that a record with the same MPN and date
\* is new.
C9_NoKeyNewInBothPasses ==
    (InPass("main") /\ InPass("observer") /\ cur["main"] # cur["observer"]) =>
        Keys(concat(new_master_data["main"]))
            \cap Keys(concat(new_master_data["observer"])) = {}

\* C10: a workbook that cannot be opened is never recorded as successfully
\* processed.
C10_UnreadableNeverProcessed ==
    \A f \in FileIds : ~File(f).readable => <<f, "ok">> \notin processed


\* The match of the excess row with the master record.
MatchOf(row, r) ==
    [MPN |-> strip(Str(row[1])),
     Weekly_Hot_Parts_Date |-> r.Date,
     Reqs_Count |-> r.Reqs_Count,
     Manufacturer |-> r.Manufacturer,
     Product_Class |-> r.Product_Class,
     Description |-> r.Description,
     Excess_Filename |-> ExcessA.name,
     Excess_QTY |-> clean_qty_value(row[2]),
     Target_Price |-> clean_price_value(row[3])]

\* The pairs (excess row with a non-blank MPN, master record with the trimmed MPN).
FanPairs(rows, master) ==
    {p \in (1..Len(rows)) \X (1..Len(master)) :
        /\ ~isna(rows[p[1]][1])
        /\ strip(Str(rows[p[1]][1])) # <<>>
        /\ master[p[2]].MPN = strip(Str(rows[p[1]][1]))}

\* C4: the cross-reference of a workbook emits exactly one match per pair of an
\* excess row with a non-blank MPN and a master record whose MPN equals the trimmed
\* excess MPN, with date, reqs count, manufacturer, product class and description
\* of the master record and filename, quantity and marked-up price of the row.
C4_FanOut ==
    last_pass.kind = "xref" =>
        LET rows == last_pass.rows
            master == xs.master_data
            out == xs.matches_data
            pairs == FanPairs(rows, master)
            rec(p) == MatchOf(rows[p[1]], master[p[2]])
        IN  /\ Len(out) = Cardinality(pairs)
            /\ \A p \in pairs :
                   Cardinality({k \in 1..Len(out) : out[k] = rec(p)})
                       = Cardinality({q \in pairs : rec(q) = rec(p)})

\* Two master records for an MPN at different dates and one excess row for it:
\* two matches.
C4_Witness ==
    /\ last_pass.kind = "xref"
    /\ Len(last_pass.rows) = 1
    /\ last_pass.rows[1][1] = <<"X">>
    /\ Len(SelectSeq(xs.master_data, LAMBDA r : r.MPN = <<"X">>)) = 2
    /\ Len(xs.matches_data) = 2
    /\ xs.matches_data[1].Weekly_Hot_Parts_Date # xs.matches_data[2].Weekly_Hot_Parts_Date

\* The number of times record r occurs in df.
Count(df, r) == Cardinality({i \in 1..Len(df) : df[i] = r})

\* Whether some record of df carries the MPN and the date of r.
KeyIn(r, df) == \E i \in 1..Len(df) : df[i].MPN = r.MPN /\ df[i].Date = r.Date

\* C11: detect_duplicates splits the new records by membership of their (MPN,
\* Date) key in the existing master: the unique part holds exactly the new records
\* whose key the master lacks, the duplicates part those whose key it has, every
\* record in one part with its fields unchanged; with an empty master every new
\* record is unique.
C11_DedupePartitions ==
    last_pass.kind = "dedupe" =>
        LET new == last_pass.new_data
            existing == last_pass.existing_data
            unique == last_pass.unique_data
            dups == last_pass.duplicates
        IN  /\ Len(unique) + Len(dups) = Len(new)
            /\ \A r \in Range(new) \cup Range(unique) \cup Range(dups) :
                   /\ Count(unique, r) = IF KeyIn(r, existing) THEN 0 ELSE Count(new, r)
                   /\ Count(dups, r) = IF KeyIn(r, existing) THEN Count(new, r) ELSE 0
            /\ existing = <<>> => unique = new

\* A batch of two records against a master that has the key of the first only.
C11_Witness ==
    /\ last_pass.kind = "dedupe"
    /\ Len(last_pass.new_data) = 2
    /\ last_pass.existing_data # <<>>
    /\ last_pass.duplicates = <<last_pass.new_data[1]>>
    /\ last_pass.unique_data = <<last_pass.new_data[2]>>
    /\ last_pass.new_data[1].MPN = last_pass.new_data[2].MPN

\* C12: after the chunk loop has added the unique records of a batch to the
\* master, detect_duplicates on the same batch finds nothing unique, whatever the
\* batch and the master it started from, the empty master included.
C12_SecondCallEmpty ==
    last_pass.kind = "twice" => last_pass.second = <<>>

\* A batch of two new keys against an empty master: both are kept by the first
\* call and none by the second.
C12_Witness ==
    /\ last_pass.kind = "twice"
    /\ last_pass.cache = <<>>
    /\ Len(last_pass.chunk) = 2
    /\ last_pass.first.data = <<last_pass.chunk>>
    /\ last_pass.first.cache = last_pass.chunk
    /\ last_pass.second = <<>>

\* The text of a cell without the characters of junk, read as a number.
NumberOf(cell, junk) == ParseFloat(SelectSeq(Str(cell), LAMBDA c : c \notin junk))

\* C13: a price cell that reads as a number once '$', ',' and spaces are removed
\* is cleaned to that number times 1.12 rounded to 4 decimals ("$10.00" gives
\* 11.2); a missing, empty or non-numeric cell is cleaned to null, never to 0.
C13_PriceMarkedUpOrNull ==
    last_pass.kind = "price" =>
        LET cell == last_pass.cell
            price == last_pass.target_price
            base == NumberOf(cell, {"$", ",", " "})
        IN  /\ isna(cell) \/ ~base.ok => price.null
            /\ ~isna(cell) /\ base.ok =>
                   /\ ~price.null
                   /\ price.kind = base.kind
                   /\ base.kind = "finite" =>
                          LET b == IF base.v >= 0 THEN base.v ELSE -base.v
                              p == IF base.v >= 0 THEN price.v ELSE -price.v
                          IN  /\ 100 * (p - 112 * (b \div 100)) - 112 * (b % 100)
                                     \in -50..50
                              /\ b > 0 => p > 0
                   /\ base.kind = "inf" => price.v = base.v
            /\ cell = <<"$", "1", "0", ".", "0", "0">> =>
                   price = [null |-> FALSE, kind |-> "finite", v |-> 112000]

\* "$15" is cleaned to 16.8.
C13_Witness ==
    /\ last_pass.kind = "price"
    /\ last_pass.cell = <<"$", "1", "5">>
    /\ last_pass.target_price = [null |-> FALSE, kind |-> "finite", v |-> 168000]

\* C14: a cleaned price is null or at least 0.
C14_PriceNeverNegative ==
    last_pass.kind = "price" =>
        \/ last_pass.target_price.null
        \/ last_pass.target_price.v >= 0

\* C15: a quantity cell is cleaned to the integer its text holds once thousands
\* separators and whitespace are removed ("1,250" gives 1250), and to 0 when it is
\* missing or holds no integer ("abc").
C15_QtyParsedOrZero ==
    last_pass.kind = "qty" =>
        LET cell == last_pass.cell
            number == NumberOf(cell, {",", " "})
        IN  /\ last_pass.returned
            /\ last_pass.qty = IF ~isna(cell) /\ number.kind = "finite"
                               THEN IntOf(number.v) ELSE 0

\* C16: a cleaned quantity is an integer that is at least 0, whatever the cell
\* held, a negative number included.
C16_QtyNeverNegative ==
    last_pass.kind = "qty" /\ last_pass.returned =>
        last_pass.qty \in Nat

\* Whether text holds word, whatever the case of its letters.
Holds(text, word) ==
    \E k \in 1..Len(text) :
        /\ k + Len(word) - 1 <= Len(text)
        /\ lower(SubSeq(text, k, k + Len(word) - 1)) = word

\* Whether sheet i of a workbook may be selected: its name does not hold 'match',
\* it is not the 'Global' sheet of a 'Micron stock' file, and one of its column
\* headers holds 'mpn'.
Qualifies(file, i) ==
    LET sheet == file.sheets[i]
    IN  /\ ~Holds(sheet.name, sMatch)
        /\ ~(Contains(file.name, sMicronStock) /\ lower(sheet.name) = sGlobal)
        /\ sheet.grid # <<>>
        /\ \E c \in 1..Len(sheet.grid[1]) : Holds(sheet.grid[1][c], sMpnLower)

\* C17: find_relevant_sheet selects the first sheet in workbook order that
\* qualifies, and none when no sheet qualifies: never a sheet whose name holds
\* 'match' in any case, never the 'Global' sheet of a 'Micron stock' file; of
\* "Matching Summary" and "Raw Data" it selects "Raw Data".
C17_FirstQualifyingSheet ==
    last_pass.kind = "sheet" /\ last_pass.file.readable =>
        LET file == last_pass.file
            sheet == last_pass.sheet
            ok == {i \in 1..Len(file.sheets) : Qualifies(file, i)}
        IN  /\ sheet \in ok \cup {0}
            /\ sheet = 0 <=> ok = {}
            /\ \A i \in ok : sheet <= i

\* "Matching Summary" and "Raw Data", both with an MPN column: "Raw Data".
C17_Witness ==
    /\ last_pass.kind = "sheet"
    /\ last_pass.file.readable
    /\ Len(last_pass.file.sheets) = 2
    /\ last_pass.file.sheets[1].name = <<"M", "a", "t", "c", "h", "i", "n", "g", " ", "S", "u", "m", "m", "a", "r", "y">>
    /\ last_pass.file.sheets[1].grid # <<>>
    /\ last_pass.file.sheets[1].grid[1][1] = sMPN
    /\ last_pass.file.sheets[2].name = <<"R", "a", "w", " ", "D", "a", "t", "a">>
    /\ last_pass.sheet = 2

\* The position in columns of label when it is among the positions hits, else of
\* the first of hits, else 0.
Preferred(columns, hits, label) ==
    IF \E i \in hits : columns[i] = label
    THEN CHOOSE i \in hits : columns[i] = label
    ELSE IF hits # {} THEN CHOOSE i \in hits : \A j \in hits : i <= j
    ELSE 0

\* C18: among the columns whose header holds 'qty', 'quantity' or 'stock' the
\* quantity column is the one labelled 'QTY', else the one labelled 'Stock QTY',
\* else the first in sheet order; among those whose header holds 'price', 'target'
\* or 'cost' the price column is the one labelled 'Price', else the first; none
\* when no header holds a keyword.
C18_PreferredColumns ==
    last_pass.kind = "columns" =>
        LET columns == last_pass.columns
            HoldsAny(i, words) == \E w \in words : Holds(columns[i], w)
            qty == {i \in 1..Len(columns) :
                       HoldsAny(i, {<<"q", "t", "y">>, <<"q", "u", "a", "n", "t", "i", "t", "y">>, <<"s", "t", "o", "c", "k">>})}
            price == {i \in 1..Len(columns) :
                         HoldsAny(i, {<<"p", "r", "i", "c", "e">>, <<"t", "a", "r", "g", "e", "t">>, <<"c", "o", "s", "t">>})}
        IN  /\ last_pass.qty_col =
                   IF \E i \in qty : columns[i] = sQTY
                   THEN Preferred(columns, qty, sQTY)
                   ELSE Preferred(columns, qty, sStockQTY)
            /\ last_pass.price_col = Preferred(columns, price, sPrice)

\* 'In stock', 'Stock QTY', 'QTY': the third column is the quantity column.
C18_Witness ==
    /\ last_pass.kind = "columns"
    /\ last_pass.columns = <<<<"I", "n", " ", "s", "t", "o", "c", "k">>, sStockQTY, sQTY>>
    /\ last_pass.qty_col = 3
    /\ last_pass.price_col = 0

\* The rows of a sheet that hold every word of keywords, each in one of its cells.
HeaderRows(grid, keywords) ==
    {i \in 1..Len(grid) :
        \A w \in keywords : \E c \in 1..Len(grid[i]) : Contains(Str(grid[i][c]), w)}

\* The MPNs of the rows of a sheet below its first row holding the keywords: the
\* non-blank cells of the column headed 'MPN', trimmed, in sheet order.
MpnsBelowHeader(grid, keywords) ==
    IF HeaderRows(grid, keywords) = {} THEN <<>>
    ELSE LET h == CHOOSE i \in HeaderRows(grid, keywords) :
                      \A j \in HeaderRows(grid, keywords) : i <= j
             col == CHOOSE c \in 1..Len(grid[h]) : Contains(Str(grid[h][c]), sMPN)
             data == SelectSeq(SubSeq(grid, h + 1, Len(grid)),
                               LAMBDA row : ~isna(row[col]) /\ strip(Str(row[col])) # <<>>)
         IN  [i \in 1..Len(data) |-> strip(Str(data[i][col]))]

\* C19: the header of a sheet is its first row, from the top, whose cells hold all
\* mandatory keywords ('MPN' for a date sheet, 'MPN' and 'Reqs Count' for the
\* pivot sheet), wherever that row is, the first row of the sheet included; the
\* rows below it, and no others, are data rows.
C19_HeaderAtAnyRow ==
    last_pass.kind = "grid" =>
        LET grid == last_pass.grid
            df == last_pass.cleaned_df
            pivot == last_pass.cleaned_pivot
        IN  /\ [i \in 1..Len(df) |-> df[i].MPN] = MpnsBelowHeader(grid, {sMPN})
            /\ [i \in 1..Len(pivot) |-> pivot[i].MPN]
                   = MpnsBelowHeader(grid, {sMPN, sReqsCount})

\* The canonical fields in their priority order, each with its keyword variants
\* in lower case.
FieldVariants ==
    <<[field |-> "MPN", variants |-> {sMpnLower}],
      [field |-> "Reqs_Count",
       variants |-> {<<"r", "e", "q", "s", " ", "c", "o", "u", "n", "t">>,
                     <<"r", "e", "q", "s", "c", "o", "u", "n", "t">>,
                     <<"r", "e", "q", "u", "i", "r", "e", "m", "e", "n", "t", "s", " ", "c", "o", "u", "n", "t">>}],
      [field |-> "Manufacturer", variants |-> {<<"m", "f", "g">>, <<"m", "a", "n", "u", "f", "a", "c", "t", "u", "r", "e", "r">>}],
      [field |-> "Product_Class", variants |-> {<<"p", "r", "o", "d", "u", "c", "t", " ", "c", "l", "a", "s", "s">>}],
      [field |-> "Description", variants |-> {<<"d", "e", "s", "c", "r", "i", "p", "t", "i", "o", "n">>}]>>

\* The first of the first n fields one of whose variants the header text holds in
\* any case ("none": no field).
FieldByTable(header, n) ==
    LET hits == {k \in 1..n : \E w \in FieldVariants[k].variants : Holds(Str(header), w)}
    IN  IF hits = {} THEN "none"
        ELSE FieldVariants[CHOOSE k \in hits : \A j \in hits : k <= j].field

\* C20: a header cell is assigned to the first field, in the order MPN, Reqs Count,
\* Manufacturer, Product Class, Description, one of whose keyword variants its text
\* holds in any case, and to no field when it holds none; the pivot sheet uses the
\* fields MPN and Reqs Count.
C20_HeaderMappedByTable ==
    last_pass.kind = "header" =>
        /\ last_pass.date_field = FieldByTable(last_pass.header, Len(FieldVariants))
        /\ last_pass.pivot_field = FieldByTable(last_pass.header, 2)

\* Whether every record of df carries an MPN that is present, not empty and
\* without a blank at either end.
MpnsClean(df) ==
    \A i \in 1..Len(df) :
        /\ ~isna(df[i].MPN)
        /\ df[i].MPN # <<>>
        /\ Head(df[i].MPN) # " "
        /\ df[i].MPN[Len(df[i].MPN)] # " "

\* C21: every record extracted carries a non-empty, trimmed MPN: the rows whose
\* MPN cell is missing or blank give no record, so neither the chunks of the
\* parser, nor the master and pivot collections, nor the matches hold a record
\* with a blank MPN.
C21_MpnNeverBlank ==
    /\ \A i \in 1..Len(parser.master_data) : MpnsClean(parser.master_data[i])
    /\ \A i \in 1..Len(parser.pivot_data) : MpnsClean(parser.pivot_data[i])
    /\ MpnsClean(master_file)
    /\ MpnsClean(pivot_file)
    /\ MpnsClean(xs.matches_data)
    /\ MpnsClean(matches_file)

\* The workbooks with a blank and a missing MPN cell have been processed: the
\* master holds the part listed below those rows, and the matches the part of the
\* excess row written ' X '.
C21_Witness ==
    /\ <<"HotB", "ok">> \in processed
    /\ \E i \in 1..Len(master_file) : master_file[i].MPN = <<"Y">>
    /\ \E i \in 1..Len(matches_file) :
           /\ matches_file[i].MPN = <<"X">>
           /\ matches_file[i].Excess_Filename = ExcessA.name

\* Whether text is four digits, a dot, two digits, a dot and two digits.
IsDate(text) ==
    /\ Len(text) = 10
    /\ \A k \in {1, 2, 3, 4, 6, 7, 9, 10} : IsDigit(text[k])
    /\ text[5] = "."
    /\ text[8] = "."

\* C22: the date of every hot-parts record and of every pivot record is a
\* YYYY.MM.DD text and nothing else, for every sheet name taken as a date sheet,
\* those with text after the date included.
C22_DatesWellFormed ==
    last_pass.kind = "dates" =>
        /\ \A i \in 1..Len(last_pass.files.master) : IsDate(last_pass.files.master[i].Date)
        /\ \A i \in 1..Len(last_pass.files.pivot) : IsDate(last_pass.files.pivot[i].Date)

\* Whether a name carries a YYYY.MM.DD token somewhere.
HasDateToken(name) ==
    \E i \in 1..Len(name) : i + 9 <= Len(name) /\ IsDate(SubSeq(name, i, i + 9))

\* C29: a hot-parts workbook whose file name carries no YYYY.MM.DD token gives no
\* hot-parts record and no pivot record, also when it has date sheets and a Pivot
\* sheet: none of its sheets is extracted and the master files stay as they were.
C29_UndatedFileGivesNothing ==
    last_pass.kind = "dates" /\ ~HasDateToken(last_pass.file.name) =>
        /\ last_pass.parser = parser
        /\ last_pass.files = [master |-> master_file, pivot |-> pivot_file]

\* 'Weekly Hot Parts List 2025.7.07.xlsx' with a sheet '2025.07.07' and a Pivot
\* sheet: nothing is extracted.
C29_Witness ==
    /\ last_pass.kind = "dates"
    /\ last_pass.file.name = sWeeklyHotPartsList \o <<"2", "0", "2", "5", ".", "7", ".", "0", "7">> \o sXlsx
    /\ last_pass.file.sheets[1].name = d0707
    /\ last_pass.file.sheets[2].name = sPivot
    /\ last_pass.parser.master_data = <<>>
    /\ last_pass.files.master = <<>>




\* The rows are in ascending order of (mpn, date), date the named column.
AscendingBy(rows, date_col) ==
    \A i, j \in 1..Len(rows) :
        i < j => ~(\/ StrLess(rows[j].mpn, rows[i].mpn)
                   \/ /\ rows[j].mpn = rows[i].mpn
                      /\ StrLess(rows[j][date_col], rows[i][date_col]))

\* C23: the hot-parts and matches files a database export has written are in
\* ascending order of (mpn, date).
C23_ExportsSortedByMpnDate ==
    last_pass.kind = "export" =>
        /\ AscendingBy(master_file, "date")
        /\ AscendingBy(matches_file, "hot_parts_date")

\* The keys of the records of data that execute takes.
BoundKeys(table, data) ==
    {UniqueKey(table, RowOf(table, data[n], 0)) :
        n \in {n \in 1..Len(data) : ~ExecuteRaises(RowOf(table, data[n], 0))}}

StoredKeys(table, rows) == {UniqueKey(table, rows[i]) : i \in 1..Len(rows)}

\* C26: an insert call returns the number of rows it added to its table, a number
\* from 0 to len(data); every record is counted once, as inserted or as skipped,
\* the records after an ignored or a raising one included; for no data it
\* returns 0 and leaves the table as it was.
C26_InsertReturnsAdded ==
    last_pass.kind = "insert" =>
        LET table == last_pass.table
            data == last_pass.data
            added == BoundKeys(table, data) \ StoredKeys(table, last_pass.before)
        IN  /\ last_pass.inserted \in 0..Len(data)
            /\ last_pass.inserted + last_pass.skipped = Len(data)
            /\ last_pass.inserted = Cardinality(added)
            /\ Len(db[table]) = Len(last_pass.before) + last_pass.inserted
            /\ SubSeq(db[table], 1, Len(last_pass.before)) = last_pass.before
            /\ StoredKeys(table, db[table]) = StoredKeys(table, last_pass.before) \cup added
            /\ data = <<>> => last_pass.inserted = 0 /\ db[table] = last_pass.before

\* A call on a table that has rows: its first record raises and is skipped, its
\* second is added.
C26_Witness ==
    /\ last_pass.kind = "insert"
    /\ last_pass.table = "hot_parts"
    /\ Len(last_pass.data) = 2
    /\ ExecuteRaises(RowOf("hot_parts", last_pass.data[1], 0))
    /\ last_pass.data[2].MPN = <<"X">>
    /\ last_pass.before # <<>>
    /\ last_pass.inserted = 1
    /\ last_pass.skipped = 1

\* What process_file of a parser that holds nothing extracts from workbook f.
Extracted(f) ==
    ParserProcessFile([master_data |-> <<>>, pivot_data |-> <<>>], File(f), TRUE)

OkFiles == {f \in FileIds : <<f, "ok">> \in processed}

\* C27: a pass that fails at the move leaves the master hot-parts and pivot files
\* as they were, and every record of the two files was extracted from a workbook
\* whose pass succeeded: no record of a failed pass is merged by a later pass.
C27_FailedPassIsolated ==
    /\ last_pass.kind = "failed" =>
            /\ master_file = last_pass.master_before
            /\ pivot_file = last_pass.pivot_before
    /\ \A i \in 1..Len(master_file) :
            \E f \in OkFiles : master_file[i] \in Range(concat(Extracted(f).master_data))
    /\ \A i \in 1..Len(pivot_file) :
            \E f \in OkFiles : pivot_file[i] \in Range(concat(Extracted(f).pivot_data))

SchemaFound(sheet) ==
    \E i \in 1..Len(SheetRows(sheet.grid)) :
        /\ RowHas(SheetRows(sheet.grid)[i], sMPN)
        /\ sheet.name = sPivot => RowHas(SheetRows(sheet.grid)[i], sReqsCount)

\* Whether df has a record of every MPN of mpns, with the date.
AllExtracted(mpns, date, df) ==
    \A k \in 1..Len(mpns) :
        \E i \in 1..Len(df) : df[i].MPN = mpns[k] /\ df[i].Date = date

\* C24: a sheet without a header row yields no record, and every other sheet of
\* the workbook is extracted and compiled into the master files all the same.
C24_SchemalessSheetIsLocal ==
    last_pass.kind = "sheets" =>
        \A i \in 1..Len(last_pass.file.sheets) :
            LET sheet == last_pass.file.sheets[i]
                mpns == MpnsBelowHeader(SheetRows(sheet.grid),
                                        IF sheet.name = sPivot THEN {sMPN, sReqsCount}
                                        ELSE {sMPN})
            IN  IF sheet.name = sPivot
                THEN /\ ~SchemaFound(sheet) =>
                            /\ last_pass.parser.pivot_data = <<>>
                            /\ last_pass.files.pivot = <<>>
                     /\ SchemaFound(sheet) =>
                            /\ mpns # <<>>
                            /\ AllExtracted(mpns, d0707, last_pass.files.pivot)
                ELSE /\ ~SchemaFound(sheet) =>
                            /\ \A k \in 1..Len(last_pass.files.master) :
                                   last_pass.files.master[k].Date # sheet.name
                            /\ \A c \in 1..Len(last_pass.parser.master_data) :
                                   last_pass.parser.master_data[c][1].Date # sheet.name
                     /\ SchemaFound(sheet) =>
                            /\ mpns # <<>>
                            /\ AllExtracted(mpns, sheet.name, last_pass.files.master)

\* A workbook whose first date sheet has no header row and whose second date
\* sheet and Pivot sheet have one: the master files hold the records of these.
C24_Witness ==
    /\ last_pass.kind = "sheets"
    /\ Len(last_pass.file.sheets) = 3
    /\ last_pass.file.sheets[1].name = d0707
    /\ ~SchemaFound(last_pass.file.sheets[1])
    /\ last_pass.file.sheets[2].name = d0714
    /\ SchemaFound(last_pass.file.sheets[2])
    /\ SchemaFound(last_pass.file.sheets[3])
    /\ Len(last_pass.files.master) = 1
    /\ last_pass.files.master[1].Date = d0714
    /\ Len(last_pass.files.pivot) = 1

\* C25: a pass of an excess workbook that has been processed before, by the same
\* handler or by a handler started since, leaves the matches file with the same
\* set of records; and the matches file never holds one record twice.
C25_ReingestAddsNothing ==
    /\ \A i, j \in 1..Len(matches_file) : i # j => matches_file[i] # matches_file[j]
    /\ (last_pass.kind = "ingest" /\ last_pass.again) =>
            Range(matches_file) = Range(last_pass.before)

\* The workbook has been processed again by a handler started after its first
\* pass, which found its matches anew; the matches file holds each of them once.
C25_Witness ==
    /\ last_pass.kind = "ingest"
    /\ last_pass.again
    /\ last_pass.matches_found >= 2
    /\ Len(matches_file) = last_pass.matches_found
    /\ Len(last_pass.before) = Len(matches_file)

\* What C30 says of one call of get_random_parts and the list it returned.
RandomPartsWithin(call) ==
    LET parts == call.parts
        bound == IF call.count < 2 * call.max_manufacturers
                 THEN call.count ELSE 2 * call.max_manufacturers
    IN  /\ \A r \in parts : /\ ~r.target_price.null
                            /\ r.target_price.v > call.min_price
        /\ Cardinality({r.manufacturer : r \in parts}) <= call.max_manufacturers
        /\ \A r \in parts :
               Cardinality({q \in parts : q.manufacturer = r.manufacturer}) <= 2
        /\ Cardinality(parts) <= bound
        /\ call.raised => parts = {}

\* C30: called with a count and a max_manufacturers that are not negative,
\* get_random_parts returns only match records with a price above min_price
\* (none without a price), of at most max_manufacturers manufacturers, at most
\* two of each manufacturer, and so at most min(count, 2 * max_manufacturers)
\* records; when the query raises it returns the empty list.
C30_RandomPartsBounded ==
    (/\ last_pass.kind = "random"
     /\ last_pass.count >= 0
     /\ last_pass.max_manufacturers >= 0) => RandomPartsWithin(last_pass)

\* C30 witness: three priced parts of one manufacturer and a part without a
\* price are stored, three parts of one manufacturer are asked for, two come.
C30_Witness ==
    /\ last_pass.kind = "random"
    /\ ~last_pass.raised
    /\ last_pass.count = 3
    /\ last_pass.max_manufacturers = 1
    /\ Cardinality(PricedAbove(db.matches, last_pass.min_price)) = 3
    /\ \E i \in 1..Len(db.matches) : db.matches[i].target_price.null
    /\ Cardinality(last_pass.parts) = 2

\* C30 as stated, for every count and max_manufacturers: get_random_parts
\* returns only match records with a price above min_price, of at most
\* max_manufacturers manufacturers, at most two of each, at most
\* min(count, 2 * max_manufacturers) records, and the empty list when the query
\* raises.
C30_RandomPartsBoundedForAnyArguments ==
    last_pass.kind = "random" => RandomPartsWithin(last_pass)

=============================================================================
